---- MODULE Spec2Model ----
(***************************************************************************)
(* SSV (space-separated values): the write-side state machine              *)
(* (FluentWriter, Writer/RowWriter, Options) and the read-side state       *)
(* machines (Tokenizer, Reader) of the bytes domain, translated from the   *)
(* Rust sources under src/src/engine.                                      *)
(***************************************************************************)
EXTENDS Integers, Sequences, FiniteSets, TLC

VARIABLES
    fluent,       \* the FluentWriter: [inner, state, options]
    fluent_some,  \* Writer.fluent is Some / the FluentWriter value is still owned
    last,         \* the last write-side call: what was called, on what, and its result
    nops,         \* number of write-side calls made so far
    source,       \* the byte reader handed to the Tokenizer: [bytes, io_error]
    tokenizer,    \* the Tokenizer: [next_index, state, position, current_token_position]
    reader_state, \* Reader.state
    tokens,       \* the items Tokenizer::next has yielded so far
    rows,         \* the items Reader::next has yielded so far
    pc            \* position of the driving code

vars == <<fluent, fluent_some, last, nops, source, tokenizer, reader_state, tokens, rows, pc>>

writer_vars == <<fluent, fluent_some, last, nops>>
reader_vars == <<source, tokenizer, reader_state, tokens, rows>>

----------------------------------------------------------------------------
(* Elements of the bytes domain *)

LF == 10
CR == 13
QUOTE == 34
HASH == 35
SPACE == 32
TAB == 9
X == 120

is_spacing_element(element) == element \in {SPACE, TAB}

\* A spacing string is valid when it is non-empty and holds only spacing elements.
is_valid_spacing(spacing) ==
    /\ Len(spacing) > 0
    /\ \A i \in 1..Len(spacing) : is_spacing_element(spacing[i])

\* variant of quotes that builds one quote less
quotes_one_short(length) == [i \in 1..(length - 1) |-> QUOTE]

\* D::quotes: a string of length quotes
quotes(length) == [i \in 1..length |-> QUOTE]

from_element(element) == <<element>>

\* All strings over an alphabet, of length 0..n
Strings(alphabet, n) == UNION {[1..k -> alphabet] : k \in 0..n}

----------------------------------------------------------------------------
(* Options *)

Options_new ==
    [default_spacing |-> from_element(SPACE),
     default_line_break |-> "Lf",
     always_quoted |-> FALSE]

\* variant of set_default_spacing that stores the spacing before validating
set_default_spacing_storing_first(options, spacing) ==
    [err |-> IF ~is_valid_spacing(spacing) THEN "InvalidSpacing" ELSE "None",
     options |-> [options EXCEPT !.default_spacing = spacing]]

\* Result of Options::set_default_spacing: [err, options]
set_default_spacing(options, spacing) ==
    IF ~is_valid_spacing(spacing)
    THEN [err |-> "InvalidSpacing", options |-> options]
    ELSE [err |-> "None", options |-> [options EXCEPT !.default_spacing = spacing]]

set_default_line_break(options, line_break) ==
    [options EXCEPT !.default_line_break = line_break]

set_always_quoted(options, always_quoted) ==
    [options EXCEPT !.always_quoted = always_quoted]

----------------------------------------------------------------------------
(* The byte sink: the bytes it holds, when limited, how many more it       *)
(* accepts before write_all fails, and how many times flush was called.    *)

Sink_new == [bytes |-> <<>>, limited |-> FALSE, room |-> 0, flush_calls |-> 0]

\* std::io::Write::write_all on the sink: [ok, inner]
write_all(inner, bytes) ==
    IF ~inner.limited
    THEN [ok |-> TRUE, inner |-> [inner EXCEPT !.bytes = @ \o bytes]]
    ELSE IF Len(bytes) <= inner.room
    THEN [ok |-> TRUE,
          inner |-> [inner EXCEPT !.bytes = @ \o bytes, !.room = @ - Len(bytes)]]
    ELSE [ok |-> FALSE,
          inner |-> [inner EXCEPT !.bytes = @ \o SubSeq(bytes, 1, inner.room), !.room = 0]]

\* std::io::Write::flush on the sink, ok being whether the sink manages it:
\* [ok, inner]
flush(inner, ok) ==
    [ok |-> ok, inner |-> [inner EXCEPT !.flush_calls = @ + 1]]

----------------------------------------------------------------------------
(* FluentWriter.  Every operation returns [err, this]: err is "None" on    *)
(* success, and this is the writer as the call left it.                    *)

FluentWriter_new(inner) ==
    [inner |-> inner, state |-> "LineBegin", options |-> Options_new]

Ok(this) == [err |-> "None", this |-> this]

\* the ? operator: continue with Op only when r is Ok
Try(r, Op(_)) == IF r.err # "None" THEN r ELSE Op(r.this)

write_raw(this, bytes) ==
    LET r == write_all(this.inner, bytes)
    IN  [err |-> IF r.ok THEN "None" ELSE "IoError",
         this |-> [this EXCEPT !.inner = r.inner]]

write(this, bytes) == write_raw(this, bytes)

write_spacing_raw(this, spacing_bytes) ==
    Try(write_raw(this, spacing_bytes),
        LAMBDA t : Ok([t EXCEPT !.state = "Spacing"]))

\* variant of write_this_line_break that writes the CR of a CrLf line break
\* after its LF
write_this_line_break_cr_last(self, line_break) ==
    LET bytes == IF line_break = "Lf" THEN <<LF>> ELSE <<LF, CR>>
    IN  Try(write(self, bytes),
            LAMBDA t : Ok([t EXCEPT !.state = "LineBegin"]))

write_this_line_break(self, line_break) ==
    LET bytes == IF line_break = "Lf" THEN <<LF>> ELSE <<CR, LF>>
    IN  Try(write(self, bytes),
            LAMBDA t : Ok([t EXCEPT !.state = "LineBegin"]))

write_line_break(self) ==
    write_this_line_break(self, self.options.default_line_break)

\* variant of push_byte that does not double the quote
push_byte_once(bytes, byte) == Append(bytes, byte)

\* the body of the for loop of PreparedValue::from, on the output bytes:
\* a quote is pushed twice, any other byte once
push_byte(bytes, byte) ==
    IF byte = QUOTE THEN bytes \o <<byte, byte>> ELSE Append(bytes, byte)

\* variant of must_be_quoted that forgets the spacing and line-break reason
must_be_quoted_without_spacing(only_quotes, spacing_or_line_break) ==
    only_quotes

\* must_be_quoted of the PreparedValue built
must_be_quoted(only_quotes, spacing_or_line_break) ==
    only_quotes \/ spacing_or_line_break

\* PreparedValue::from: [bytes, must_be_quoted]
RECURSIVE PreparedValue_loop(_, _, _, _, _)
PreparedValue_loop(original_bytes, i, bytes, only_quotes, spacing_or_line_break) ==
    IF i > Len(original_bytes)
    THEN [bytes |-> bytes,
          must_be_quoted |-> must_be_quoted(only_quotes, spacing_or_line_break)]
    ELSE LET byte == original_bytes[i] IN
         IF byte = QUOTE
         THEN PreparedValue_loop(original_bytes, i + 1, push_byte(bytes, byte),
                                 only_quotes, spacing_or_line_break)
         ELSE PreparedValue_loop(original_bytes, i + 1, push_byte(bytes, byte),
                                 FALSE,
                                 spacing_or_line_break
                                     \/ byte = LF \/ is_spacing_element(byte))

PreparedValue_from(original_bytes) ==
    PreparedValue_loop(original_bytes, 1, <<>>, TRUE, FALSE)

\* variant of before_value that also writes the default spacing after a spacing
before_value_after_spacing_too(self) ==
    CASE self.state \in {"Value", "Spacing"} ->
             write_spacing_raw(self, self.options.default_spacing)
      [] self.state = "Comment" -> write_line_break(self)
      [] OTHER -> Ok(self)

\* the match on self.state that opens write_value_raw
before_value(self) ==
    CASE self.state = "Value" ->
             write_spacing_raw(self, self.options.default_spacing)
      [] self.state = "Comment" -> write_line_break(self)
      [] OTHER -> Ok(self)

\* variant of hash_at_line_begin that does not look at the state
hash_in_any_state(this, bytes) ==
    /\ Len(bytes) > 0
    /\ bytes[1] = HASH

\* the last disjunct of quoted in write_value_raw
hash_at_line_begin(this, bytes) ==
    /\ this.state = "LineBegin"
    /\ Len(bytes) > 0
    /\ bytes[1] = HASH

write_value_raw(self, value, quoted) ==
    LET prepared_value == PreparedValue_from(value)
        Quoted(this) ==
            \/ quoted
            \/ prepared_value.must_be_quoted
            \/ this.options.always_quoted
            \/ hash_at_line_begin(this, prepared_value.bytes)
    IN  Try(before_value(self), LAMBDA this :
        Try(IF Quoted(this) THEN write(this, <<QUOTE>>) ELSE Ok(this), LAMBDA t1 :
        Try(write(t1, prepared_value.bytes), LAMBDA t2 :
        Try(IF Quoted(this) THEN write(t2, <<QUOTE>>) ELSE Ok(t2), LAMBDA t3 :
        Ok([t3 EXCEPT !.state = "Value"])))))

write_value(self, value) == write_value_raw(self, value, FALSE)

write_quoted_value(self, value) == write_value_raw(self, value, TRUE)

\* variant of write_spacing that validates after the automatic line break
write_spacing_validating_late(self, spacing) ==
    Try(IF self.state = "Comment" THEN write_line_break(self) ELSE Ok(self),
        LAMBDA this : IF ~is_valid_spacing(spacing)
                      THEN [err |-> "InvalidSpacing", this |-> this]
                      ELSE write_spacing_raw(this, spacing))

write_spacing(self, spacing) ==
    IF ~is_valid_spacing(spacing)
    THEN [err |-> "InvalidSpacing", this |-> self]
    ELSE Try(IF self.state = "Comment" THEN write_line_break(self) ELSE Ok(self),
             LAMBDA this : write_spacing_raw(this, spacing))

\* variant of before_comment that forgets the state Spacing
before_comment_without_spacing(self) ==
    IF self.state \in {"Value", "Comment"}
    THEN write_line_break(self)
    ELSE Ok(self)

\* the match on self.state that opens write_comment
before_comment(self) ==
    IF self.state \in {"Value", "Spacing", "Comment"}
    THEN write_line_break(self)
    ELSE Ok(self)

write_comment(self, comment) ==
    Try(before_comment(self), LAMBDA this :
    Try(write(this, <<HASH>>), LAMBDA t1 :
    Try(write(t1, comment), LAMBDA t2 :
    Ok([t2 EXCEPT !.state = "Comment"]))))

\* FluentWriter::finish: self.inner.flush()?
FluentWriter_finish(self, flush_ok) ==
    LET r == flush(self.inner, flush_ok) IN
    [err |-> IF r.ok THEN "None" ELSE "IoError",
     this |-> [self EXCEPT !.inner = r.inner]]

\* a FluentWriter going out of scope: the type has no Drop impl, so its
\* fields are dropped and no method of the inner writer is called
FluentWriter_drop(self) == self

\* FluentWriter::set_options
FluentWriter_set_options(self, options) == Ok([self EXCEPT !.options = options])

----------------------------------------------------------------------------
(* Writer and RowWriter.  The Writer is w = [fluent, some]: some is FALSE  *)
(* once the Option holding the FluentWriter is None.  Every method returns *)
(* [err, panicked, w].                                                     *)

Writer_new(inner) == [fluent |-> FluentWriter_new(inner), some |-> TRUE]

WOk(w) == [err |-> "None", panicked |-> FALSE, w |-> w]

Panic(w) == [err |-> "None", panicked |-> TRUE, w |-> w]

\* the ? operator on Writer results
WTry(r, Op(_)) == IF r.panicked \/ r.err # "None" THEN r ELSE Op(r.w)

\* take_fluent panics (expect) when the Option is None; use_fluent leaves the
\* Option None when f fails.
use_fluent(w, F(_)) ==
    IF ~w.some
    THEN Panic(w)
    ELSE LET r == F(w.fluent) IN
         IF r.err # "None"
         THEN [err |-> r.err, panicked |-> FALSE,
               w |-> [fluent |-> r.this, some |-> FALSE]]
         ELSE WOk([fluent |-> r.this, some |-> TRUE])

RowWriter_write_value(w, value) ==
    use_fluent(w, LAMBDA f : write_value(f, value))

RowWriter_write_spacing(w, spacing) ==
    use_fluent(w, LAMBDA f : write_spacing(f, spacing))

RECURSIVE RowWriter_write_values(_, _)
RowWriter_write_values(w, values) ==
    IF values = <<>>
    THEN WOk(w)
    ELSE WTry(RowWriter_write_value(w, Head(values)),
              LAMBDA w1 : RowWriter_write_values(w1, Tail(values)))

\* variant of finish_row that writes no line break
finish_row_without_line_break(w) == use_fluent(w, LAMBDA f : Ok(f))

finish_row(w) == use_fluent(w, LAMBDA f : write_line_break(f))

\* Drop for RowWriter: finish_row().unwrap()
RowWriter_drop(w) ==
    LET r == finish_row(w) IN
    IF r.panicked \/ r.err # "None" THEN Panic(r.w) ELSE WOk(r.w)

\* variant of RowWriter_finish that does not forget the RowWriter
RowWriter_finish_then_drop(w) ==
    LET r == finish_row(w) IN
    IF r.panicked THEN r
    ELSE LET d == RowWriter_drop(r.w) IN
         [err |-> r.err, panicked |-> d.panicked, w |-> d.w]

\* RowWriter::finish: on Ok the RowWriter is forgotten; on Err the ? returns
\* and the RowWriter, still owned, is dropped.
RowWriter_finish(w) ==
    LET r == finish_row(w) IN
    IF r.panicked THEN r
    ELSE IF r.err # "None"
    THEN LET d == RowWriter_drop(r.w) IN
         [err |-> r.err, panicked |-> d.panicked, w |-> d.w]
    ELSE r

\* Writer::write_row: an early return by ? drops the RowWriter
write_row(w, row) ==
    LET r == RowWriter_write_values(w, row) IN
    IF r.panicked THEN r
    ELSE IF r.err # "None"
    THEN LET d == RowWriter_drop(r.w) IN
         [err |-> r.err, panicked |-> d.panicked, w |-> d.w]
    ELSE RowWriter_finish(r.w)

RECURSIVE write_rows(_, _)
write_rows(w, rs) ==
    IF rs = <<>>
    THEN WOk(w)
    ELSE WTry(write_row(w, Head(rs)), LAMBDA w1 : write_rows(w1, Tail(rs)))

write_comment_line(w, comment) ==
    LET r == use_fluent(w, LAMBDA f : write_comment(f, comment)) IN
    IF r.panicked THEN r
    ELSE IF r.err # "None"
    THEN LET d == RowWriter_drop(r.w) IN
         [err |-> r.err, panicked |-> d.panicked, w |-> d.w]
    ELSE RowWriter_finish(r.w)

\* Writer::finish: take_fluent().finish(); the Writer is consumed
Writer_finish(w, flush_ok) ==
    IF ~w.some
    THEN Panic(w)
    ELSE LET r == FluentWriter_finish(w.fluent, flush_ok) IN
         [err |-> r.err, panicked |-> FALSE, w |-> [fluent |-> r.this, some |-> FALSE]]

\* a Writer going out of scope: no Drop impl, its FluentWriter (if any) is
\* dropped
Writer_drop(w) ==
    IF w.some THEN [w EXCEPT !.fluent = FluentWriter_drop(@)] ELSE w

\* Writer::options: expect on the Option
Writer_options(w) == IF ~w.some THEN Panic(w) ELSE WOk(w)

\* Writer::set_options
Writer_set_options(w, options) ==
    use_fluent(w, LAMBDA f : FluentWriter_set_options(f, options))

\* engine::write: Writer::new then write_rows, the Writer being dropped on
\* return
engine_write(inner, rs) ==
    LET r == write_rows(Writer_new(inner), rs) IN
    [r EXCEPT !.w = Writer_drop(@)]

----------------------------------------------------------------------------
(* Tokenizer.  A state is [tag, value, count]; a token is                  *)
(* [kind, value, line_break]; an item yielded by next is                   *)
(* [kind, value, line_break, position], kind "UnpairedQuote",              *)
(* "UnclosedQuotedValue" and "IoError" being the errors.                   *)

St(tag, value, count) == [tag |-> tag, value |-> value, count |-> count]

Begin == St("Begin", <<>>, 0)
UnquotedValue(value) == St("UnquotedValue", value, 0)
QuoteInUnquotedValue(value) == St("QuoteInUnquotedValue", value, 0)
QuotesPrefix(count) == St("QuotesPrefix", <<>>, count)
QuotedValue(value) == St("QuotedValue", value, 0)
QuoteInQuotedValue(value) == St("QuoteInQuotedValue", value, 0)
Spacing(spacing) == St("Spacing", spacing, 0)
LfLineBreak == St("LfLineBreak", <<>>, 0)
CrInLineBreak == St("CrInLineBreak", <<>>, 0)
Comment(comment) == St("Comment", comment, 0)
NoState == St("None", <<>>, 0)

Token(kind, value) == [kind |-> kind, value |-> value, line_break |-> "-"]
LineBreakToken(line_break) == [kind |-> "LineBreak", value |-> <<>>, line_break |-> line_break]
NoToken == [kind |-> "None", value |-> <<>>, line_break |-> "-"]

Position(line_number, column_number) ==
    [line_number |-> line_number, column_number |-> column_number]

\* the outcomes of process: Ok((next_state, token)), Err(error), or a panic
POk(next_state, token) ==
    [outcome |-> "Ok", state |-> next_state, token |-> token,
     error |-> "None", position |-> Position(0, 0)]
PErr(error, position) ==
    [outcome |-> "Err", state |-> NoState, token |-> NoToken,
     error |-> error, position |-> position]
PPanic ==
    [outcome |-> "Panic", state |-> NoState, token |-> NoToken,
     error |-> "None", position |-> Position(0, 0)]

\* variant of after_value that does not take a CR before LF for a terminator
after_value_without_cr(element, next_element_is_lf) ==
    IF is_spacing_element(element) THEN Spacing(from_element(element))
    ELSE IF element = LF THEN LfLineBreak
    ELSE NoState

\* the state a terminating element (spacing, LF, CR before LF) leads to,
\* NoState when the element is not a terminator
after_value(element, next_element_is_lf) ==
    IF is_spacing_element(element) THEN Spacing(from_element(element))
    ELSE IF element = LF THEN LfLineBreak
    ELSE IF element = CR /\ next_element_is_lf THEN CrInLineBreak
    ELSE NoState

\* variant of after_spacing that takes a HASH for the start of a comment
after_spacing_with_comment(element, next_element_is_lf) ==
    IF element = QUOTE THEN QuotesPrefix(1)
    ELSE IF element = LF THEN LfLineBreak
    ELSE IF element = CR /\ next_element_is_lf THEN CrInLineBreak
    ELSE IF element = HASH THEN Comment(<<>>)
    ELSE UnquotedValue(from_element(element))

\* the state a non-spacing element leads to from state Spacing
after_spacing(element, next_element_is_lf) ==
    IF element = QUOTE THEN QuotesPrefix(1)
    ELSE IF element = LF THEN LfLineBreak
    ELSE IF element = CR /\ next_element_is_lf THEN CrInLineBreak
    ELSE UnquotedValue(from_element(element))

\* variant of unpaired_quote_position that leaves the column as it is
unpaired_quote_position_unadjusted(position) == position

\* position of the error in the two UnpairedQuote paths of process:
\* self.position with column_number decremented
unpaired_quote_position(position) ==
    [position EXCEPT !.column_number = @ - 1]

\* variant of unclosed_quoted_value_position that leaves the column as it is
unclosed_quoted_value_position_unadjusted(position) == position

\* position of the error in the two UnclosedQuotedValue paths of finish:
\* self.position with column_number incremented
unclosed_quoted_value_position(position) ==
    [position EXCEPT !.column_number = @ + 1]

\* variant of quotes_prefix_token that makes the token an unquoted value
quotes_prefix_token_unquoted(count) ==
    Token("UnquotedValue", quotes((count - 2) \div 2))

\* the token of an even run of count quotes that a terminating element ends
quotes_prefix_token(count) ==
    Token("QuotedValue", quotes((count - 2) \div 2))

\* variant of comment_push that keeps one quote of two in a row
comment_push_collapsing(comment, element) ==
    IF element = QUOTE /\ Len(comment) > 0 /\ comment[Len(comment)] = QUOTE
    THEN comment
    ELSE Append(comment, element)

\* comment.push(element) in state Comment
comment_push(comment, element) == Append(comment, element)

\* Tokenizer::process, with self.position and the result of the peek passed in
process(element, state, next_element_is_lf, position) ==
    CASE state.tag = "Begin" ->
            IF is_spacing_element(element) THEN POk(Spacing(from_element(element)), NoToken)
            ELSE IF element = QUOTE THEN POk(QuotesPrefix(1), NoToken)
            ELSE IF element = LF THEN POk(state, LineBreakToken("Lf"))
            ELSE IF element = CR /\ next_element_is_lf THEN POk(CrInLineBreak, NoToken)
            ELSE IF element = HASH THEN POk(Comment(<<>>), NoToken)
            ELSE POk(UnquotedValue(from_element(element)), NoToken)
      [] state.tag = "UnquotedValue" ->
            IF element = QUOTE THEN POk(QuoteInUnquotedValue(state.value), NoToken)
            ELSE LET next_state == after_value(element, next_element_is_lf) IN
                 IF next_state # NoState
                 THEN POk(next_state, Token("UnquotedValue", state.value))
                 ELSE POk(UnquotedValue(Append(state.value, element)), NoToken)
      [] state.tag = "QuoteInUnquotedValue" ->
            IF element = QUOTE THEN POk(UnquotedValue(Append(state.value, element)), NoToken)
            ELSE IF position.column_number = 0 THEN PPanic
            ELSE PErr("UnpairedQuote", unpaired_quote_position(position))
      [] state.tag = "QuotesPrefix" ->
            IF element = QUOTE THEN POk(QuotesPrefix(state.count + 1), NoToken)
            ELSE IF state.count % 2 = 0
            THEN LET next_state == after_value(element, next_element_is_lf) IN
                 IF next_state # NoState
                 THEN IF state.count < 2 THEN PPanic
                      ELSE POk(next_state, quotes_prefix_token(state.count))
                 ELSE POk(UnquotedValue(Append(quotes(state.count \div 2), element)), NoToken)
            ELSE IF state.count < 1 THEN PPanic
            ELSE POk(QuotedValue(Append(quotes((state.count - 1) \div 2), element)), NoToken)
      [] state.tag = "QuotedValue" ->
            IF element = QUOTE THEN POk(QuoteInQuotedValue(state.value), NoToken)
            ELSE POk(QuotedValue(Append(state.value, element)), NoToken)
      [] state.tag = "QuoteInQuotedValue" ->
            IF element = QUOTE THEN POk(QuotedValue(Append(state.value, element)), NoToken)
            ELSE LET next_state == after_value(element, next_element_is_lf) IN
                 IF next_state # NoState
                 THEN POk(next_state, Token("QuotedValue", state.value))
                 ELSE IF position.column_number = 0 THEN PPanic
                 ELSE PErr("UnpairedQuote", unpaired_quote_position(position))
      [] state.tag = "Spacing" ->
            IF is_spacing_element(element)
            THEN POk(Spacing(Append(state.value, element)), NoToken)
            ELSE POk(after_spacing(element, next_element_is_lf),
                     Token("Spacing", state.value))
      [] state.tag = "LfLineBreak" ->
            LET next_state ==
                    IF is_spacing_element(element) THEN Spacing(from_element(element))
                    ELSE IF element = QUOTE THEN QuotesPrefix(1)
                    ELSE IF element = LF THEN LfLineBreak
                    ELSE IF element = CR /\ next_element_is_lf THEN CrInLineBreak
                    ELSE IF element = HASH THEN Comment(<<>>)
                    ELSE UnquotedValue(from_element(element))
            IN  POk(next_state, LineBreakToken("Lf"))
      [] state.tag = "CrInLineBreak" ->
            IF element # LF THEN PPanic
            ELSE POk(Begin, LineBreakToken("CrLf"))
      [] state.tag = "Comment" ->
            LET next_line_break_state ==
                    IF element = LF THEN LfLineBreak
                    ELSE IF element = CR /\ next_element_is_lf THEN CrInLineBreak
                    ELSE NoState
            IN  IF next_line_break_state # NoState
                THEN POk(next_line_break_state, Token("Comment", state.value))
                ELSE POk(Comment(comment_push(state.value, element)), NoToken)

\* variant of finish that keeps half the quotes of an even run of quotes
finish_halving_quotes(state, position) ==
    CASE state.tag = "Begin" -> POk(NoState, NoToken)
      [] state.tag = "UnquotedValue" -> POk(NoState, Token("UnquotedValue", state.value))
      [] state.tag = "QuoteInUnquotedValue" -> PErr("UnpairedQuote", position)
      [] state.tag = "QuotesPrefix" ->
            IF state.count % 2 = 0
            THEN POk(NoState, Token("QuotedValue", quotes(state.count \div 2)))
            ELSE PErr("UnclosedQuotedValue", unclosed_quoted_value_position(position))
      [] state.tag = "QuotedValue" ->
            PErr("UnclosedQuotedValue", unclosed_quoted_value_position(position))
      [] state.tag = "QuoteInQuotedValue" -> POk(NoState, Token("QuotedValue", state.value))
      [] state.tag = "Spacing" -> POk(NoState, Token("Spacing", state.value))
      [] state.tag = "LfLineBreak" -> POk(NoState, LineBreakToken("Lf"))
      [] state.tag = "CrInLineBreak" -> PPanic
      [] state.tag = "Comment" -> POk(NoState, Token("Comment", state.value))

\* variant of finish that takes the end of the input for the closing quote
\* of a quoted value
finish_closing_quoted_value(state, position) ==
    CASE state.tag = "Begin" -> POk(NoState, NoToken)
      [] state.tag = "UnquotedValue" -> POk(NoState, Token("UnquotedValue", state.value))
      [] state.tag = "QuoteInUnquotedValue" -> PErr("UnpairedQuote", position)
      [] state.tag = "QuotesPrefix" ->
            IF state.count % 2 = 0
            THEN IF state.count < 2 THEN PPanic
                 ELSE POk(NoState, Token("QuotedValue", quotes((state.count - 2) \div 2)))
            ELSE PErr("UnclosedQuotedValue", unclosed_quoted_value_position(position))
      [] state.tag = "QuotedValue" -> POk(NoState, Token("QuotedValue", state.value))
      [] state.tag = "QuoteInQuotedValue" -> POk(NoState, Token("QuotedValue", state.value))
      [] state.tag = "Spacing" -> POk(NoState, Token("Spacing", state.value))
      [] state.tag = "LfLineBreak" -> POk(NoState, LineBreakToken("Lf"))
      [] state.tag = "CrInLineBreak" -> PPanic
      [] state.tag = "Comment" -> POk(NoState, Token("Comment", state.value))

\* Tokenizer::finish, with self.position passed in
finish(state, position) ==
    CASE state.tag = "Begin" -> POk(NoState, NoToken)
      [] state.tag = "UnquotedValue" -> POk(NoState, Token("UnquotedValue", state.value))
      [] state.tag = "QuoteInUnquotedValue" -> PErr("UnpairedQuote", position)
      [] state.tag = "QuotesPrefix" ->
            IF state.count % 2 = 0
            THEN IF state.count < 2 THEN PPanic
                 ELSE POk(NoState, Token("QuotedValue", quotes((state.count - 2) \div 2)))
            ELSE PErr("UnclosedQuotedValue", unclosed_quoted_value_position(position))
      [] state.tag = "QuotedValue" ->
            PErr("UnclosedQuotedValue", unclosed_quoted_value_position(position))
      [] state.tag = "QuoteInQuotedValue" -> POk(NoState, Token("QuotedValue", state.value))
      [] state.tag = "Spacing" -> POk(NoState, Token("Spacing", state.value))
      [] state.tag = "LfLineBreak" -> POk(NoState, LineBreakToken("Lf"))
      [] state.tag = "CrInLineBreak" -> PPanic
      [] state.tag = "Comment" -> POk(NoState, Token("Comment", state.value))

\* items of the token iterator
Item(token, position) ==
    [kind |-> token.kind, value |-> token.value,
     line_break |-> token.line_break, position |-> position]
ErrItem(error, position) ==
    [kind |-> error, value |-> <<>>, line_break |-> "-", position |-> position]
NoItem == [kind |-> "None", value |-> <<>>, line_break |-> "-", position |-> Position(0, 0)]
PanicItem == [kind |-> "Panic", value |-> <<>>, line_break |-> "-", position |-> Position(0, 0)]

IsError(item) == item.kind \in {"UnpairedQuote", "UnclosedQuotedValue", "IoError"}
IsValue(item) == item.kind \in {"UnquotedValue", "QuotedValue"}

\* variant of Tokenizer_new that starts the column at 1
Tokenizer_new_at_column_one ==
    [next_index |-> 1,
     state |-> Begin,
     position |-> Position(1, 1),
     current_token_position |-> Position(0, 0)]

Tokenizer_new ==
    [next_index |-> 1,
     state |-> Begin,
     position |-> Position(1, 0),
     current_token_position |-> Position(0, 0)]

\* variant of next_element_is_lf that does not look ahead
next_element_is_lf_unlooked(src, i) == TRUE

\* self.elements.peek() is Some(Ok(LF)), the element at index i having been taken
next_element_is_lf(src, i) ==
    i + 1 <= Len(src.bytes) /\ src.bytes[i + 1] = LF

\* the while loop of Tokenizer::next and the call of finish after it:
\* [item, tokenizer, from], from being the state in which the loop ended
RECURSIVE next_loop(_, _, _, _, _)
next_loop(src, i, state, position, current_token_position) ==
    IF i > Len(src.bytes)
    THEN IF src.io_error /\ i = Len(src.bytes) + 1
         THEN [item |-> ErrItem("IoError", Position(0, 0)), from |-> state,
               tokenizer |-> [next_index |-> i + 1, state |-> NoState,
                              position |-> position,
                              current_token_position |-> current_token_position]]
         ELSE LET f == finish(state, position) IN
              [item |-> CASE f.outcome = "Panic" -> PanicItem
                          [] f.outcome = "Err" -> ErrItem(f.error, f.position)
                          [] f.token = NoToken -> NoItem
                          [] OTHER -> Item(f.token, current_token_position),
               from |-> state,
               tokenizer |-> [next_index |-> i, state |-> NoState,
                              position |-> position,
                              current_token_position |-> current_token_position]]
    ELSE LET element == src.bytes[i]
             position1 == [position EXCEPT !.column_number = @ + 1]
             ctp1 == IF state = Begin THEN position1 ELSE current_token_position
             r == process(element, state, next_element_is_lf(src, i), position1)
         IN  IF r.outcome # "Ok"
             THEN [item |-> IF r.outcome = "Panic" THEN PanicItem
                            ELSE ErrItem(r.error, r.position),
                   from |-> state,
                   tokenizer |-> [next_index |-> i + 1, state |-> NoState,
                                  position |-> position1,
                                  current_token_position |-> ctp1]]
             ELSE LET is_some == r.token # NoToken
                      ctp2 == IF is_some /\ r.state # Begin THEN position1 ELSE ctp1
                      position2 == IF element = LF
                                   THEN Position(position1.line_number + 1, 0)
                                   ELSE position1
                  IN  IF is_some
                      THEN [item |-> Item(r.token, ctp1), from |-> state,
                            tokenizer |-> [next_index |-> i + 1, state |-> r.state,
                                           position |-> position2,
                                           current_token_position |-> ctp2]]
                      ELSE next_loop(src, i + 1, r.state, position2, ctp2)

\* variant of Tokenizer_next that goes on from Begin instead of ending
Tokenizer_next_unfused(tk, src) ==
    next_loop(src, tk.next_index, IF tk.state = NoState THEN Begin ELSE tk.state,
              tk.position, tk.current_token_position)

\* Tokenizer::next: None at once when self.state is None
Tokenizer_next(tk, src) ==
    IF tk.state = NoState
    THEN [item |-> NoItem, from |-> NoState, tokenizer |-> tk]
    ELSE next_loop(src, tk.next_index, tk.state, tk.position, tk.current_token_position)

----------------------------------------------------------------------------
(* Reader.  A state is [tag, row]; next returns [item, tokenizer, state],  *)
(* the item being [kind, row, position] with kind "Row", an error, "None"  *)
(* or "Panic".                                                             *)

RBegin == [tag |-> "Begin", row |-> <<>>]
RRow(row) == [tag |-> "Row", row |-> row]
RComment == [tag |-> "Comment", row |-> <<>>]
RNone == [tag |-> "None", row |-> <<>>]

ReturnRow(row) == [result |-> "ReturnRow", row |-> row, state |-> RNone]
NextState(state) == [result |-> "NextState", row |-> <<>>, state |-> state]
Unreachable == [result |-> "Panic", row |-> <<>>, state |-> RNone]

\* variant of Reader_process that returns a row at the end of a comment line
Reader_process_comment_row(token, state) ==
    CASE state.tag = "Begin" ->
            (CASE IsValue(token) -> NextState(RRow(<<token.value>>))
               [] token.kind = "Spacing" -> NextState(RRow(<<>>))
               [] token.kind = "LineBreak" -> ReturnRow(<<>>)
               [] token.kind = "Comment" -> NextState(RComment))
      [] state.tag = "Row" ->
            (CASE IsValue(token) -> NextState(RRow(Append(state.row, token.value)))
               [] token.kind = "Spacing" -> NextState(RRow(state.row))
               [] token.kind = "LineBreak" -> ReturnRow(state.row)
               [] token.kind = "Comment" -> Unreachable)
      [] state.tag = "Comment" ->
            IF token.kind = "LineBreak" THEN ReturnRow(<<>>) ELSE NextState(RBegin)

\* variant of Reader_process that skips a line break met in state Begin
Reader_process_skipping_blank(token, state) ==
    CASE state.tag = "Begin" ->
            (CASE IsValue(token) -> NextState(RRow(<<token.value>>))
               [] token.kind = "Spacing" -> NextState(RRow(<<>>))
               [] token.kind = "LineBreak" -> NextState(RBegin)
               [] token.kind = "Comment" -> NextState(RComment))
      [] state.tag = "Row" ->
            (CASE IsValue(token) -> NextState(RRow(Append(state.row, token.value)))
               [] token.kind = "Spacing" -> NextState(RRow(state.row))
               [] token.kind = "LineBreak" -> ReturnRow(state.row)
               [] token.kind = "Comment" -> Unreachable)
      [] state.tag = "Comment" -> NextState(RBegin)

\* Reader::process
Reader_process(token, state) ==
    CASE state.tag = "Begin" ->
            (CASE IsValue(token) -> NextState(RRow(<<token.value>>))
               [] token.kind = "Spacing" -> NextState(RRow(<<>>))
               [] token.kind = "LineBreak" -> ReturnRow(<<>>)
               [] token.kind = "Comment" -> NextState(RComment))
      [] state.tag = "Row" ->
            (CASE IsValue(token) -> NextState(RRow(Append(state.row, token.value)))
               [] token.kind = "Spacing" -> NextState(RRow(state.row))
               [] token.kind = "LineBreak" -> ReturnRow(state.row)
               [] token.kind = "Comment" -> Unreachable)
      [] state.tag = "Comment" -> NextState(RBegin)

RowItem(row) == [kind |-> "Row", row |-> row, position |-> Position(0, 0)]
RErrItem(item) == [kind |-> item.kind, row |-> <<>>, position |-> item.position]
RNoItem == [kind |-> "None", row |-> <<>>, position |-> Position(0, 0)]
RPanicItem == [kind |-> "Panic", row |-> <<>>, position |-> Position(0, 0)]

\* variant of Reader_finish that drops the row of an unterminated last line
Reader_finish_dropping_row(state) == RNoItem

\* Reader::finish
Reader_finish(state) ==
    IF state.tag = "Row" THEN RowItem(state.row) ELSE RNoItem

\* variant of Reader_loop that keeps the state when the tokenizer fails
RECURSIVE Reader_loop_keeping_state(_, _, _)
Reader_loop_keeping_state(src, tk, state) ==
    LET t == Tokenizer_next(tk, src) IN
    IF t.item = NoItem
    THEN [item |-> Reader_finish(state), tokenizer |-> t.tokenizer, state |-> RNone]
    ELSE IF t.item.kind = "Panic"
    THEN [item |-> RPanicItem, tokenizer |-> t.tokenizer, state |-> RNone]
    ELSE IF IsError(t.item)
    THEN [item |-> RErrItem(t.item), tokenizer |-> t.tokenizer, state |-> state]
    ELSE LET p == Reader_process(t.item, state) IN
         CASE p.result = "ReturnRow" ->
                 [item |-> RowItem(p.row), tokenizer |-> t.tokenizer, state |-> RBegin]
           [] p.result = "NextState" -> Reader_loop_keeping_state(src, t.tokenizer, p.state)
           [] OTHER -> [item |-> RPanicItem, tokenizer |-> t.tokenizer, state |-> RNone]

\* the while loop of Reader::next and the call of finish after it
RECURSIVE Reader_loop(_, _, _)
Reader_loop(src, tk, state) ==
    LET t == Tokenizer_next(tk, src) IN
    IF t.item = NoItem
    THEN [item |-> Reader_finish(state), tokenizer |-> t.tokenizer, state |-> RNone]
    ELSE IF t.item.kind = "Panic"
    THEN [item |-> RPanicItem, tokenizer |-> t.tokenizer, state |-> RNone]
    ELSE IF IsError(t.item)
    THEN [item |-> RErrItem(t.item), tokenizer |-> t.tokenizer, state |-> RNone]
    ELSE LET p == Reader_process(t.item, state) IN
         CASE p.result = "ReturnRow" ->
                 [item |-> RowItem(p.row), tokenizer |-> t.tokenizer, state |-> RBegin]
           [] p.result = "NextState" -> Reader_loop(src, t.tokenizer, p.state)
           [] OTHER -> [item |-> RPanicItem, tokenizer |-> t.tokenizer, state |-> RNone]

\* Reader::next: None at once when self.state is None
Reader_next(src, tk, state) ==
    IF state = RNone
    THEN [item |-> RNoItem, tokenizer |-> tk, state |-> state]
    ELSE Reader_loop(src, tk, state)

----------------------------------------------------------------------------
(* Bounds and the sets the calls draw their arguments from *)

MaxOps == 3
MaxFluentValueLen == 1
MaxSpacingLen == 1
MaxCommentLen == 1
MaxValueLen == 3
MaxRoundTripLen == 5
MaxRows == 2
MaxRowLen == 2
MaxInput == 4
MaxExtraCalls == 1
MaxOptionCalls == 1
MaxWriterOps == 3
MaxRoom == 2
MaxQuotes == 4
MaxAgreeOps == 3

LineBreaks == {"Lf", "CrLf"}
FluentValues == Strings({X, HASH, SPACE}, MaxFluentValueLen)
SpacingArgs == Strings({SPACE, TAB, X}, MaxSpacingLen)
CommentArgs == Strings({X}, MaxCommentLen)
Values == Strings({X, SPACE, QUOTE, HASH, LF, CR}, MaxValueLen)
RoundTripValues == Strings({X, SPACE, QUOTE}, MaxRoundTripLen)
RowValues == {<<>>, <<X>>, <<HASH>>, <<X, SPACE>>}
Rows == Strings(RowValues, MaxRowLen)
Tables == Strings(Rows, MaxRows)
SingleValueTables == {<< <<v>> >> : v \in RoundTripValues}
\* a run of at most MaxQuotes quotes, alone or before one more element or
\* a CR-LF
QuoteInputs ==
    {quotes(n) \o tail :
        n \in 1..MaxQuotes,
        tail \in {<<>>, <<SPACE>>, <<LF>>, <<CR, LF>>, <<X>>}}
Inputs == Strings({X, SPACE, QUOTE, HASH, LF, CR}, MaxInput) \cup QuoteInputs
WriterTables == {<<>>, << <<>> >>, << << <<X>> >>, << <<X>> >> >>}
WriterSpacingArgs == {<<>>, <<TAB>>, <<X>>}

----------------------------------------------------------------------------
(* State after construction *)

NoPrev == [op |-> "none", arg |-> <<>>, state |-> "LineBegin", start |-> 0, err |-> "None"]

NoCall ==
    [op |-> "none", arg |-> <<>>, line_break |-> "-", flag |-> FALSE,
     pre |-> FluentWriter_new(Sink_new), some |-> TRUE,
     err |-> "None", panicked |-> FALSE,
     prev |-> NoPrev]

\* FluentWriter::new / Writer::new over an empty byte sink
InitWriter ==
    /\ fluent = FluentWriter_new(Sink_new)
    /\ fluent_some = TRUE
    /\ last = NoCall
    /\ nops = 0

\* no Tokenizer or Reader constructed yet
InitNoReader ==
    /\ source = [bytes |-> <<>>, io_error |-> FALSE]
    /\ tokenizer = Tokenizer_new
    /\ reader_state = RBegin
    /\ tokens = <<>>
    /\ rows = <<>>

\* Tokenizer::new / Reader::new over a byte reader
InitReader(sources) ==
    /\ source \in sources
    /\ tokenizer = Tokenizer_new
    /\ reader_state = RBegin
    /\ tokens = <<>>
    /\ rows = <<>>

Sources == [bytes : Inputs, io_error : BOOLEAN]

----------------------------------------------------------------------------
(* Calls on a FluentWriter.  A call that returns Err has consumed the      *)
(* writer: no further call can be made on it.                              *)

Record(op, arg, line_break, flag, err, panicked) ==
    [op |-> op, arg |-> arg, line_break |-> line_break, flag |-> flag,
     pre |-> fluent, some |-> fluent_some, err |-> err, panicked |-> panicked,
     prev |-> [op |-> last.op, arg |-> last.arg, state |-> last.pre.state,
               start |-> Len(last.pre.inner.bytes), err |-> last.err]]

FluentCall(op, arg, line_break, flag, r) ==
    /\ pc = "write"
    /\ fluent_some
    /\ fluent' = r.this
    /\ fluent_some' = (r.err = "None")
    /\ last' = Record(op, arg, line_break, flag, r.err, FALSE)
    /\ nops' = nops + 1
    /\ UNCHANGED <<reader_vars, pc>>

WriteValue(values) ==
    \E value \in values :
        FluentCall("write_value", value, "-", FALSE, write_value(fluent, value))

WriteQuotedValue(values) ==
    \E value \in values :
        FluentCall("write_quoted_value", value, "-", FALSE,
                   write_quoted_value(fluent, value))

WriteSpacing(spacings) ==
    \E spacing \in spacings :
        FluentCall("write_spacing", spacing, "-", FALSE, write_spacing(fluent, spacing))

WriteLineBreak ==
    FluentCall("write_line_break", <<>>, "-", FALSE, write_line_break(fluent))

WriteThisLineBreak ==
    \E line_break \in LineBreaks :
        FluentCall("write_this_line_break", <<>>, line_break, FALSE,
                   write_this_line_break(fluent, line_break))

WriteComment(comments) ==
    \E comment \in comments :
        FluentCall("write_comment", comment, "-", FALSE, write_comment(fluent, comment))

\* FluentWriter::set_default_spacing
SetDefaultSpacing(spacings) ==
    \E spacing \in spacings :
        LET r == set_default_spacing(fluent.options, spacing) IN
        FluentCall("set_default_spacing", spacing, "-", FALSE,
                   [err |-> r.err, this |-> [fluent EXCEPT !.options = r.options]])

\* FluentWriter::set_default_line_break
SetDefaultLineBreak(line_breaks) ==
    \E line_break \in line_breaks :
        FluentCall("set_default_line_break", <<>>, line_break, FALSE,
                   Ok([fluent EXCEPT
                          !.options = set_default_line_break(@, line_break)]))

\* FluentWriter::set_always_quoted
SetAlwaysQuoted(flags) ==
    \E always_quoted \in flags :
        FluentCall("set_always_quoted", <<>>, "-", always_quoted,
                   Ok([fluent EXCEPT
                          !.options = set_always_quoted(@, always_quoted)]))

----------------------------------------------------------------------------
(* Calls on a Tokenizer and on a Reader *)

\* Tokenizer::new over the bytes the writer has produced
TokenizeOutput ==
    /\ pc = "write"
    /\ fluent_some
    /\ nops >= 1
    /\ pc' = "tokenize"
    /\ source' = [bytes |-> fluent.inner.bytes, io_error |-> FALSE]
    /\ tokenizer' = Tokenizer_new
    /\ UNCHANGED <<writer_vars, reader_state, tokens, rows>>

Nones(items) == Cardinality({i \in 1..Len(items) : items[i].kind = "None"})

\* one call of Tokenizer::next
TokenizerNext ==
    /\ pc = "tokenize"
    /\ Nones(tokens) <= MaxExtraCalls
    /\ LET r == Tokenizer_next(tokenizer, source) IN
       /\ tokenizer' = r.tokenizer
       /\ tokens' = Append(tokens,
              [kind |-> r.item.kind, value |-> r.item.value,
               line_break |-> r.item.line_break, position |-> r.item.position,
               from |-> r.from])
    /\ UNCHANGED <<writer_vars, source, reader_state, rows, pc>>

\* one call of Reader::next
ReaderNext ==
    /\ pc = "read"
    /\ Nones(rows) <= MaxExtraCalls
    /\ LET r == Reader_next(source, tokenizer, reader_state) IN
       /\ tokenizer' = r.tokenizer
       /\ reader_state' = r.state
       /\ rows' = Append(rows, r.item)
    /\ UNCHANGED <<writer_vars, source, tokens, pc>>

----------------------------------------------------------------------------
(* SpecFluent: any sequence of at most MaxOps calls on a FluentWriter *)

InitFluent == InitWriter /\ InitNoReader /\ pc = "write"

NextFluent ==
    /\ nops < MaxOps
    /\ \/ WriteValue(FluentValues)
       \/ WriteQuotedValue(FluentValues)
       \/ WriteSpacing(SpacingArgs)
       \/ WriteLineBreak
       \/ WriteThisLineBreak
       \/ WriteComment(CommentArgs)
       \/ SetDefaultSpacing(SpacingArgs)
       \/ SetDefaultLineBreak(LineBreaks)
       \/ SetAlwaysQuoted(BOOLEAN)

SpecFluent == InitFluent /\ [][NextFluent]_vars

(* SpecValue: one value over the full alphabet, written by a FluentWriter  *)
(* that at most one earlier call has put in some state, and the            *)
(* tokenization of the bytes produced                                      *)

Prelude ==
    /\ nops = 0
    /\ \/ WriteValue({<<X>>})
       \/ WriteSpacing({<<TAB>>})
       \/ WriteLineBreak
       \/ WriteComment({<<X>>})
       \/ SetDefaultSpacing({<<TAB, SPACE>>})
       \/ SetDefaultLineBreak({"CrLf"})
       \/ SetAlwaysQuoted(BOOLEAN)

IsValueOp(op) == op \in {"write_value", "write_quoted_value"}

NextValue ==
    \/ Prelude
    \/ /\ nops = 1
       /\ \/ WriteValue(Values)
          \/ WriteQuotedValue(Values)
    \/ /\ nops = 2
       /\ TokenizeOutput
    \/ TokenizerNext

SpecValue == InitFluent /\ [][NextValue]_vars

(* SpecTok: a Tokenizer over any input of at most MaxInput elements,       *)
(* possibly ending in an IO error                                          *)

InitTok == InitWriter /\ InitReader(Sources) /\ pc = "tokenize"

NextTok == TokenizerNext

SpecTok == InitTok /\ [][NextTok]_vars

----------------------------------------------------------------------------
(* Calls on a Writer.  A panic ends the run of the driving code.           *)

WriterCall(op, arg, line_break, flag, r) ==
    /\ pc = "write"
    /\ fluent' = r.w.fluent
    /\ fluent_some' = r.w.some
    /\ last' = Record(op, arg, line_break, flag, r.err, r.panicked)
    /\ nops' = nops + 1
    /\ pc' = IF r.panicked THEN "panicked" ELSE pc
    /\ UNCHANGED reader_vars

TheWriter == [fluent |-> fluent, some |-> fluent_some]

\* Writer::options_mut: expect on the Option, then the setter on the Options
options_mut(w, Set(_)) ==
    IF ~w.some
    THEN Panic(w)
    ELSE LET r == Set(w.fluent.options) IN
         [err |-> r.err, panicked |-> FALSE,
          w |-> [w EXCEPT !.fluent.options = r.options]]

WriterSetDefaultSpacing(spacings) ==
    \E spacing \in spacings :
        WriterCall("set_default_spacing", spacing, "-", FALSE,
                   options_mut(TheWriter,
                               LAMBDA o : set_default_spacing(o, spacing)))

WriterSetDefaultLineBreak ==
    \E line_break \in LineBreaks :
        WriterCall("set_default_line_break", <<>>, line_break, FALSE,
                   options_mut(TheWriter,
                               LAMBDA o : [err |-> "None",
                                           options |-> set_default_line_break(o, line_break)]))

WriterSetAlwaysQuoted ==
    \E always_quoted \in BOOLEAN :
        WriterCall("set_always_quoted", <<>>, "-", always_quoted,
                   options_mut(TheWriter,
                               LAMBDA o : [err |-> "None",
                                           options |-> set_always_quoted(o, always_quoted)]))

WriterWriteRows(tables) ==
    \E rs \in tables :
        WriterCall("write_rows", rs, "-", FALSE, write_rows(TheWriter, rs))

\* engine::write(sink, rows) on a fresh sink
EngineWrite(tables) ==
    /\ nops = 0
    /\ \E rs \in tables :
           WriterCall("write", rs, "-", FALSE, engine_write(fluent.inner, rs))

\* engine::read over the bytes written
EngineRead ==
    /\ pc = "write"
    /\ last.op \in {"write", "write_rows"}
    /\ pc' = "read"
    /\ source' = [bytes |-> fluent.inner.bytes, io_error |-> FALSE]
    /\ tokenizer' = Tokenizer_new
    /\ reader_state' = RBegin
    /\ UNCHANGED <<writer_vars, tokens, rows>>

(* SpecRT: a table written by write, or by write_rows on a Writer whose    *)
(* options at most MaxOptionCalls calls have set, and read back            *)

InitRT == InitWriter /\ InitNoReader /\ pc = "write"

NextRT ==
    \/ /\ nops < MaxOptionCalls
       /\ \/ WriterSetDefaultSpacing(SpacingArgs)
          \/ WriterSetDefaultLineBreak
          \/ WriterSetAlwaysQuoted
    \/ /\ last.op \notin {"write", "write_rows"}
       /\ WriterWriteRows(Tables)
    \/ EngineWrite(Tables \cup SingleValueTables)
    \/ EngineRead
    \/ ReaderNext

SpecRT == InitRT /\ [][NextRT]_vars

(* SpecRoundTrip: a one-row, one-value table written by write and read    *)
(* back                                                                    *)

NextRoundTrip ==
    \/ EngineWrite(SingleValueTables)
    \/ EngineRead
    \/ ReaderNext

SpecRoundTrip == InitRT /\ [][NextRoundTrip]_vars

----------------------------------------------------------------------------
(* SpecWriter: at most MaxWriterOps calls on a Writer over a sink that may *)
(* fail, and on the RowWriter obtained from it.  pc is "row" while a       *)
(* RowWriter borrows the Writer, "finished" or "dropped" once the Writer   *)
(* is gone.  A call that panics ends the run.                              *)

\* a call made at one position of the driving code and leaving it at another
CallAt(at, op, arg, r, next_pc) ==
    /\ pc \in at
    /\ fluent' = r.w.fluent
    /\ fluent_some' = r.w.some
    /\ last' = Record(op, arg, "-", FALSE, r.err, r.panicked)
    /\ nops' = nops + 1
    /\ pc' = IF r.panicked THEN "panicked" ELSE next_pc
    /\ UNCHANGED reader_vars

WriterWriteRow ==
    \E row \in {<<>>, << <<X>> >>} :
        WriterCall("write_row", row, "-", FALSE, write_row(TheWriter, row))

WriterWriteCommentLine ==
    \E comment \in CommentArgs :
        WriterCall("write_comment_line", comment, "-", FALSE,
                   write_comment_line(TheWriter, comment))

\* Writer::options, on the Writer or through its RowWriter
WriterOptions ==
    CallAt({"write", "row"}, "options", <<>>, Writer_options(TheWriter), pc)

\* Writer::set_options, on the Writer or through its RowWriter
WriterSetOptions ==
    \E options \in {[default_spacing |-> <<TAB>>,
                      default_line_break |-> "CrLf",
                      always_quoted |-> FALSE]} :
        CallAt({"write", "row"}, "set_options", <<>>,
               Writer_set_options(TheWriter, options), pc)

\* Writer::finish, the sink managing the flush or not
WriterFinish ==
    \E flush_ok \in BOOLEAN :
        CallAt({"write"}, "finish", <<>>, Writer_finish(TheWriter, flush_ok), "finished")

\* the Writer goes out of scope
WriterDrop ==
    CallAt({"write"}, "drop", <<>>, WOk(Writer_drop(TheWriter)), "dropped")

\* engine::write(sink, rows) on the sink: the Writer it makes is gone when
\* it returns
WriteHelper ==
    /\ nops = 0
    /\ \E rs \in WriterTables :
           CallAt({"write"}, "write", rs, engine_write(fluent.inner, rs), "dropped")

\* Writer::new_row: a RowWriter borrows the Writer, which is not touched
NewRow ==
    /\ pc = "write"
    /\ pc' = "row"
    /\ UNCHANGED <<writer_vars, reader_vars>>

RowWriteValue ==
    \E value \in {<<X>>} :
        CallAt({"row"}, "RowWriter::write_value", value,
               RowWriter_write_value(TheWriter, value), "row")

RowWriteSpacing ==
    \E spacing \in WriterSpacingArgs :
        CallAt({"row"}, "RowWriter::write_spacing", spacing,
               RowWriter_write_spacing(TheWriter, spacing), "row")

\* RowWriter::finish consumes the RowWriter
RowFinish ==
    CallAt({"row"}, "RowWriter::finish", <<>>, RowWriter_finish(TheWriter), "write")

\* the RowWriter goes out of scope
RowDrop ==
    CallAt({"row"}, "RowWriter::drop", <<>>, RowWriter_drop(TheWriter), "write")

\* std::mem::forget on the RowWriter: the borrow ends, drop does not run
RowForget ==
    /\ pc = "row"
    /\ pc' = "write"
    /\ UNCHANGED <<writer_vars, reader_vars>>

\* Writer::new over a sink that accepts everything, or one that fails
\* after accepting at most MaxRoom bytes
InitSpecWriter ==
    /\ fluent \in {FluentWriter_new(sink) :
                       sink \in {Sink_new} \cup
                                {[Sink_new EXCEPT !.limited = TRUE, !.room = n] :
                                     n \in 0..MaxRoom}}
    /\ fluent_some = TRUE
    /\ last = NoCall
    /\ nops = 0
    /\ InitNoReader
    /\ pc = "write"

NextWriter ==
    /\ nops < MaxWriterOps
    /\ \/ WriterWriteRow
       \/ WriterWriteRows(WriterTables)
       \/ WriterWriteCommentLine
       \/ WriterOptions
       \/ WriterSetDefaultSpacing(WriterSpacingArgs)
       \/ WriterSetDefaultLineBreak
       \/ WriterSetAlwaysQuoted
       \/ WriterSetOptions
       \/ WriterFinish
       \/ WriterDrop
       \/ WriteHelper
       \/ NewRow
       \/ RowWriteValue
       \/ RowWriteSpacing
       \/ RowFinish
       \/ RowDrop
       \/ RowForget

SpecWriter == InitSpecWriter /\ [][NextWriter]_vars

----------------------------------------------------------------------------
(* SpecAgree: at most MaxAgreeOps calls that write an item on a            *)
(* FluentWriter with its default options, the values over regular,         *)
(* spacing, quote and HASH elements, the spacings valid, the comments      *)
(* without CR or LF                                                        *)

NextAgree ==
    /\ nops < MaxAgreeOps
    /\ \/ WriteValue(Strings({X, SPACE, QUOTE, HASH}, 1)
                      \cup {<<QUOTE, QUOTE>>, <<QUOTE, X>>, <<X, QUOTE>>})
       \/ WriteQuotedValue(Strings({X, SPACE, QUOTE, HASH}, 1)
                            \cup {<<QUOTE, QUOTE>>, <<QUOTE, X>>, <<X, QUOTE>>})
       \/ WriteSpacing({<<SPACE>>, <<TAB>>})
       \/ WriteLineBreak
       \/ WriteThisLineBreak
       \/ WriteComment(Strings({X, SPACE, QUOTE, HASH}, 1))

SpecAgree == InitFluent /\ [][NextAgree]_vars

----------------------------------------------------------------------------
(* SpecRows: a table whose values are drawn over the full alphabet,        *)
(* written by write_rows on a new Writer and read back                     *)

NextRows ==
    \/ /\ nops = 0
       /\ WriterWriteRows(Strings(Strings(Strings({X, SPACE, QUOTE, HASH, LF, CR}, 1),
                                          2), 2))
    \/ EngineRead
    \/ ReaderNext

SpecRows == InitRT /\ [][NextRows]_vars

----------------------------------------------------------------------------
(* SpecLines: at most MaxWriterOps calls of write_row and                  *)
(* write_comment_line on a new Writer, the comments drawn over regular,    *)
(* spacing, quote, HASH and LF elements                                    *)

NextLines ==
    /\ nops < MaxWriterOps
    /\ \/ WriterWriteRow
       \/ \E comment \in Strings({X, SPACE, QUOTE, HASH, LF}, 1) \cup {<<X, LF, X>>} :
              WriterCall("write_comment_line", comment, "-", FALSE,
                         write_comment_line(TheWriter, comment))

SpecLines == InitRT /\ [][NextLines]_vars

----------------------------------------------------------------------------
(* SpecLineStart: at most MaxAgreeOps calls on a FluentWriter, the values  *)
(* and comments holding line breaks too, the options being changed on the  *)
(* way                                                                     *)

NextLineStart ==
    /\ nops < MaxAgreeOps
    /\ \/ WriteValue({<<X>>, <<HASH>>, <<LF>>, <<X, CR>>})
       \/ WriteQuotedValue({<<X, LF>>})
       \/ WriteSpacing({<<SPACE>>, <<>>})
       \/ WriteLineBreak
       \/ WriteThisLineBreak
       \/ WriteComment({<<>>, <<X>>, <<X, LF>>, <<CR>>})
       \/ SetDefaultSpacing({<<TAB>>})
       \/ SetDefaultLineBreak(LineBreaks)
       \/ SetAlwaysQuoted({TRUE})

SpecLineStart == InitFluent /\ [][NextLineStart]_vars

----------------------------------------------------------------------------
(* Vocabulary of the properties, stated on the bytes and items observed    *)

Bytes == fluent.inner.bytes

\* the bytes the last call appended to the sink
Added == SubSeq(Bytes, Len(last.pre.inner.bytes) + 1, Len(Bytes))

Count(seq, elements) == Cardinality({i \in 1..Len(seq) : seq[i] \in elements})

IsPrefix(p, seq) == Len(p) <= Len(seq) /\ SubSeq(seq, 1, Len(p)) = p

LineBreakBytes(line_break) == IF line_break = "Lf" THEN <<LF>> ELSE <<CR, LF>>

\* a value with each quote written twice
RECURSIVE Doubled(_)
Doubled(v) ==
    IF v = <<>> THEN <<>>
    ELSE (IF Head(v) = QUOTE THEN <<QUOTE, QUOTE>> ELSE <<Head(v)>>) \o Doubled(Tail(v))

Enclosed(v) == <<QUOTE>> \o Doubled(v) \o <<QUOTE>>

OnlyQuotes(v) == \A i \in 1..Len(v) : v[i] = QUOTE

HasSpacingOrLf(v) == \E i \in 1..Len(v) : v[i] \in {SPACE, TAB, LF}

BeginsWithHash(v) == Len(v) > 0 /\ v[1] = HASH

\* what a value call writes before the value itself, by the state it is made in
AutoBeforeValue(call) ==
    IF call.pre.state = "Value" THEN call.pre.options.default_spacing
    ELSE IF call.pre.state = "Comment"
    THEN LineBreakBytes(call.pre.options.default_line_break)
    ELSE <<>>

\* the bytes of the value itself in what the last (value) call wrote
Body == SubSeq(Added, Len(AutoBeforeValue(last)) + 1, Len(Added))

ValueWritten == IsValueOp(last.op) /\ last.err = "None"

\* the items yielded before the first None, and whether None has been yielded
Yielded(items) == SelectSeq(items, LAMBDA it : it.kind # "None")
Ended(items) == \E i \in 1..Len(items) : items[i].kind = "None"

\* C1: a string over {regular, spacing, quote} written by write as the sole
\* value of a one-row table is written without error, and reading the bytes
\* back yields exactly one row holding exactly that string, and no error.
C1_RoundTripSingleValue ==
    (/\ last.op = "write"
     /\ Len(last.arg) = 1
     /\ Len(last.arg[1]) = 1
     /\ \A i \in 1..Len(last.arg[1][1]) : last.arg[1][1][i] \in {X, SPACE, QUOTE})
    => /\ last.err = "None"
       /\ ~last.panicked
       /\ (pc = "read" /\ Ended(rows))
              => Yielded(rows) = <<RowItem(<<last.arg[1][1]>>)>>
       /\ pc = "read" => \A i \in 1..Len(rows) : rows[i].kind \in {"Row", "None"}

C1_Witness ==
    /\ pc = "read"
    /\ Ended(rows)
    /\ last.op = "write"
    /\ Len(last.arg) = 1
    /\ Len(last.arg[1]) = 1
    /\ Len(last.arg[1][1]) >= 5
    /\ Count(last.arg[1][1], {QUOTE}) >= 2
    /\ Count(last.arg[1][1], {SPACE}) >= 1
    /\ Yielded(rows) = <<RowItem(<<last.arg[1][1]>>)>>

\* C2: with always_quoted false, write_value of a value not beginning with
\* HASH encloses it in quotes exactly when it is empty, made only of quotes,
\* or holds a spacing element or an LF, and writes it bare otherwise;
\* write_quoted_value, and write_value with always_quoted true, always
\* enclose it.
C2_MinimalQuoting ==
    ValueWritten =>
        /\ (/\ last.op = "write_value"
            /\ ~last.pre.options.always_quoted
            /\ ~BeginsWithHash(last.arg))
           => IF last.arg = <<>> \/ OnlyQuotes(last.arg) \/ HasSpacingOrLf(last.arg)
              THEN Body = Enclosed(last.arg)
              ELSE Body = Doubled(last.arg)
        /\ (last.op = "write_quoted_value" \/ last.pre.options.always_quoted)
           => Body = Enclosed(last.arg)

C2_Witness ==
    /\ ValueWritten
    /\ last.op = "write_value"
    /\ ~last.pre.options.always_quoted
    /\ last.arg = <<QUOTE, QUOTE>>
    /\ last.pre.state = "Value"
    /\ Body = <<QUOTE, QUOTE, QUOTE, QUOTE, QUOTE, QUOTE>>

\* C3 as stated: a value beginning with HASH written by write_value is
\* quoted in state LineBegin or Comment and written unquoted in state Value
\* or Spacing.
C3_Original ==
    (ValueWritten /\ last.op = "write_value" /\ BeginsWithHash(last.arg))
    => IF last.pre.state \in {"LineBegin", "Comment"}
       THEN Body = Enclosed(last.arg)
       ELSE Body = Doubled(last.arg)

\* C3 (amended): a value beginning with HASH written by write_value is
\* quoted when it is the first item on its line (state LineBegin, or state
\* Comment after the automatic line break); in state Value or Spacing it is
\* written unquoted unless always_quoted is set or it holds a spacing
\* element or an LF, in which case it is quoted as any other value.
C3_HashDisambiguation ==
    (ValueWritten /\ last.op = "write_value" /\ BeginsWithHash(last.arg))
    => IF \/ last.pre.state \in {"LineBegin", "Comment"}
          \/ last.pre.options.always_quoted
          \/ HasSpacingOrLf(last.arg)
       THEN Body = Enclosed(last.arg)
       ELSE Body = Doubled(last.arg)

C3_Witness ==
    /\ ValueWritten
    /\ last.op = "write_value"
    /\ last.arg = <<HASH, X>>
    /\ last.pre.state = "Comment"
    /\ Added = <<LF, QUOTE, HASH, X, QUOTE>>

\* C4: write_value and write_quoted_value write each quote of the value as
\* two quotes and every other element unchanged (bare or between enclosing
\* quotes), and tokenizing the bytes written yields, as the last token, a
\* value token holding the value with each pair back to one quote.
C4_QuoteDoubling ==
    ValueWritten =>
        /\ Body \in {Doubled(last.arg), Enclosed(last.arg)}
        /\ (pc = "tokenize" /\ Ended(tokens))
           => /\ \A i \in 1..Len(tokens) : ~IsError(tokens[i]) /\ tokens[i].kind # "Panic"
              /\ Yielded(tokens) # <<>>
              /\ LET t == Yielded(tokens)[Len(Yielded(tokens))]
                 IN  IsValue(t) /\ t.value = last.arg

C4_Witness ==
    /\ ValueWritten
    /\ last.op = "write_value"
    /\ last.arg = <<X, QUOTE, X>>
    /\ Added = <<X, QUOTE, QUOTE, X>>
    /\ pc = "tokenize"
    /\ Ended(tokens)
    /\ Yielded(tokens)[1].kind = "UnquotedValue"
    /\ Yielded(tokens)[1].value = <<X, QUOTE, X>>

\* the bytes a value is expected to be written as
ExpectedValue(v, first, options) ==
    IF \/ options.always_quoted
       \/ OnlyQuotes(v)
       \/ HasSpacingOrLf(v)
       \/ (first /\ BeginsWithHash(v))
    THEN Enclosed(v)
    ELSE Doubled(v)

\* the values of a row from the i-th on, each but the first of the row
\* preceded by one default spacing
RECURSIVE ExpectedValues(_, _, _)
ExpectedValues(row, i, options) ==
    IF i > Len(row) THEN <<>>
    ELSE (IF i = 1 THEN <<>> ELSE options.default_spacing)
         \o ExpectedValue(row[i], i = 1, options)
         \o ExpectedValues(row, i + 1, options)

RECURSIVE ExpectedRows(_, _)
ExpectedRows(rs, options) ==
    IF rs = <<>> THEN <<>>
    ELSE ExpectedValues(Head(rs), 1, options)
         \o LineBreakBytes(options.default_line_break)
         \o ExpectedRows(Tail(rs), options)

\* C5: write_rows and write(sink, rows) output, for each row in order, its
\* encoded values separated by exactly one default spacing and followed by
\* exactly one default line-break, also after the last row; an empty row
\* gives only the line-break; no spacing comes before the first or after
\* the last value of a row.
C5_RowLayout ==
    last.op \in {"write", "write_rows"}
    => /\ last.err = "None"
       /\ ~last.panicked
       /\ Added = ExpectedRows(last.arg, last.pre.options)

C5_Witness ==
    /\ last.op = "write_rows"
    /\ last.err = "None"
    /\ last.pre.options.default_spacing = <<TAB>>
    /\ last.arg = << <<>>, << <<X>>, <<HASH>> >> >>
    /\ Added = <<LF, X, TAB, HASH, LF>>

\* the spacing and line break a call is expected to write by itself,
\* before the item it was asked to write
AutoSpacing(call) ==
    IF IsValueOp(call.op) /\ call.pre.state = "Value"
    THEN call.pre.options.default_spacing
    ELSE <<>>

AutoLineBreak(call) ==
    IF \/ /\ IsValueOp(call.op) \/ call.op = "write_spacing"
          /\ call.pre.state = "Comment"
       \/ /\ call.op = "write_comment"
          /\ call.pre.state \in {"Value", "Spacing", "Comment"}
    THEN LineBreakBytes(call.pre.options.default_line_break)
    ELSE <<>>

\* the elements of the item a call was asked to write
Payload(call) ==
    CASE IsValueOp(call.op) -> call.arg
      [] call.op \in {"write_spacing", "write_comment"} -> call.arg
      [] call.op = "write_line_break" ->
             LineBreakBytes(call.pre.options.default_line_break)
      [] call.op = "write_this_line_break" -> LineBreakBytes(call.line_break)
      [] OTHER -> <<>>

\* C6: the default spacing is written by the writer itself exactly once,
\* at the start of what a value call writes, when the call is made in state
\* Value, and in no other case; a custom spacing written between two values
\* is all the spacing between them.
C6_AutoSpacing ==
    last.err = "None" =>
        /\ IsPrefix(AutoSpacing(last), Added)
        /\ Count(Added, {SPACE, TAB})
               = Len(AutoSpacing(last)) + Count(Payload(last), {SPACE, TAB})
        /\ (/\ IsValueOp(last.op)
            /\ last.prev.op = "write_spacing"
            /\ last.prev.err = "None"
            /\ last.prev.state = "Value")
           => /\ SubSeq(Bytes, last.prev.start + 1, Len(last.pre.inner.bytes))
                     = last.prev.arg
              /\ ~is_spacing_element(Added[1])

C6_Witness ==
    /\ last.err = "None"
    /\ last.op = "write_value"
    /\ last.pre.state = "Value"
    /\ last.pre.options.default_spacing = <<TAB>>
    /\ last.arg = <<X>>
    /\ Added = <<TAB, X>>

\* C7: one line break of the default kind in force is written by the writer
\* itself, first of all, before a value or a spacing written in state
\* Comment and before a comment written in state Value, Spacing or Comment,
\* and in no other case; in state LineBegin nothing precedes the item.
C7_AutoLineBreak ==
    last.err = "None" =>
        /\ IsPrefix(AutoLineBreak(last), Added)
        /\ Count(Added, {LF})
               = Count(AutoLineBreak(last), {LF}) + Count(Payload(last), {LF})
        /\ Count(Added, {CR})
               = Count(AutoLineBreak(last), {CR}) + Count(Payload(last), {CR})
        /\ (last.pre.state = "LineBegin" /\ Payload(last) # <<>>)
           => Added[1] \in {QUOTE, HASH, Payload(last)[1]}

C7_Witness ==
    /\ last.err = "None"
    /\ last.op = "write_spacing"
    /\ last.pre.state = "Comment"
    /\ last.pre.options.default_line_break = "CrLf"
    /\ Added = <<CR, LF, TAB>>

\* C8: write_spacing with an empty string or a string holding a
\* non-spacing element fails with InvalidSpacing and writes nothing, in
\* every writer state; no automatic line break is written in state Comment.
C8_InvalidSpacing ==
    (/\ last.op = "write_spacing"
     /\ \/ last.arg = <<>>
        \/ \E i \in 1..Len(last.arg) : last.arg[i] \notin {SPACE, TAB})
    => /\ last.err = "InvalidSpacing"
       /\ Bytes = last.pre.inner.bytes

C8_Witness ==
    /\ last.op = "write_spacing"
    /\ last.arg = <<X>>
    /\ last.pre.state = "Comment"
    /\ last.err = "InvalidSpacing"
    /\ Bytes = last.pre.inner.bytes

\* line and column of the i-th element of the input: the line is one more
\* than the number of LF before it, the column counts from the last LF
LastLfBefore(bytes, i) ==
    LET lfs == {j \in 1..(i - 1) : bytes[j] = LF}
    IN  IF lfs = {} THEN 0 ELSE CHOOSE j \in lfs : \A k \in lfs : k <= j

ElementPosition(bytes, i) ==
    Position(1 + Count(SubSeq(bytes, 1, i - 1), {LF}), i - LastLfBefore(bytes, i))

\* the input has, at index q, a quote that no following quote pairs with,
\* inside an unquoted value (followed by a non-quote or by the end of input)
LoneQuoteInUnquoted(bytes, q) ==
    /\ q \in 1..Len(bytes)
    /\ bytes[q] = QUOTE
    /\ q = Len(bytes) \/ bytes[q + 1] # QUOTE

\* the input has, at index q, the closing quote of a quoted value followed
\* by an element that cannot follow it
BadAfterClosingQuote(bytes, q) ==
    /\ q \in 1..(Len(bytes) - 1)
    /\ bytes[q] = QUOTE
    /\ bytes[q + 1] \notin {QUOTE, SPACE, TAB, LF}
    /\ ~(bytes[q + 1] = CR /\ q + 2 <= Len(bytes) /\ bytes[q + 2] = LF)

\* index of the last element the tokenizer consumed
Consumed == tokenizer.next_index - 1

\* C9: UnpairedQuote is what the tokenizer yields when it stops in an
\* unquoted value at a single quote (followed by a non-quote element or by
\* the end of input) or at the closing quote of a quoted value followed by
\* an element other than quote, spacing, LF or CR-then-LF, and the error
\* carries the line and column of that quote.
C9_UnpairedQuotePosition ==
    \A k \in 1..Len(tokens) :
        LET t == tokens[k]
            q == IF source.bytes[Consumed] = QUOTE THEN Consumed ELSE Consumed - 1
        IN  /\ (t.from.tag = "QuoteInUnquotedValue" /\ t.kind # "IoError")
               => t.kind = "UnpairedQuote"
            /\ (t.from.tag = "QuoteInQuotedValue" /\ t.kind \notin {"IoError", "QuotedValue"})
               => t.kind = "UnpairedQuote"
            /\ t.kind = "UnpairedQuote"
               => /\ \/ /\ t.from.tag = "QuoteInUnquotedValue"
                        /\ LoneQuoteInUnquoted(source.bytes, q)
                     \/ /\ t.from.tag = "QuoteInQuotedValue"
                        /\ BadAfterClosingQuote(source.bytes, q)
                  /\ t.position = ElementPosition(source.bytes, q)

C9_Witness ==
    /\ source.bytes = <<QUOTE, LF, QUOTE, X>>
    /\ Len(tokens) >= 1
    /\ tokens[1].kind = "UnpairedQuote"
    /\ tokens[1].from.tag = "QuoteInQuotedValue"
    /\ tokens[1].position = Position(2, 1)

\* the input ends (without IO error) inside a quoted value
EndsInsideQuotedValue(t) ==
    /\ ~source.io_error
    /\ Consumed = Len(source.bytes)
    /\ \/ t.from.tag = "QuotedValue"
       \/ t.from.tag = "QuotesPrefix" /\ t.from.count % 2 = 1

\* C10 as stated: when the input ends inside a quoted value the tokenizer
\* yields UnclosedQuotedValue, one column past the last element of the input.
C10_Original ==
    \A k \in 1..Len(tokens) :
        EndsInsideQuotedValue(tokens[k])
        => /\ tokens[k].kind = "UnclosedQuotedValue"
           /\ LET p == ElementPosition(source.bytes, Len(source.bytes))
              IN  tokens[k].position = Position(p.line_number, p.column_number + 1)

\* C10 (amended): when the input ends inside a quoted value the tokenizer
\* yields UnclosedQuotedValue at the position the next element would have
\* had: one column past the last element of the input, or, when that
\* element is an LF, column 1 of the following line.
C10_UnclosedQuotedValue ==
    \A k \in 1..Len(tokens) :
        EndsInsideQuotedValue(tokens[k])
        => /\ tokens[k].kind = "UnclosedQuotedValue"
           /\ LET n == Len(source.bytes)
                  p == ElementPosition(source.bytes, n)
              IN  tokens[k].position =
                      IF source.bytes[n] = LF
                      THEN Position(p.line_number + 1, 1)
                      ELSE Position(p.line_number, p.column_number + 1)

C10_Witness ==
    /\ source.bytes = <<QUOTE, QUOTE, QUOTE, LF>>
    /\ ~source.io_error
    /\ Len(tokens) >= 1
    /\ tokens[1].kind = "UnclosedQuotedValue"
    /\ tokens[1].from.tag = "QuotedValue"
    /\ tokens[1].position = Position(2, 1)

----------------------------------------------------------------------------
(* Properties of the token sequence *)

IsToken(item) ==
    item.kind \in {"UnquotedValue", "QuotedValue", "Spacing", "Comment", "LineBreak"}

\* C11: over an input of n elements the tokenizer yields at most n + 1 items
\* before None, none of them a panic, and every call made after an error
\* item or after a None returns None.
C11_FiniteAndFused ==
    /\ Len(Yielded(tokens)) <= Len(source.bytes) + 1
    /\ \A i \in 1..Len(tokens) :
           /\ tokens[i].kind # "Panic"
           /\ (IsError(tokens[i]) \/ tokens[i].kind = "None")
              => \A j \in (i + 1)..Len(tokens) : tokens[j].kind = "None"

C11_Witness ==
    /\ source.bytes = <<X, QUOTE, X, X>>
    /\ Len(tokens) = 3
    /\ tokens[1].kind = "UnpairedQuote"
    /\ tokens[2].kind = "None"
    /\ tokens[3].kind = "None"

\* the elements a token is made of: a value with its quotes doubled (and
\* enclosed, when quoted), a spacing, a comment with its HASH, a line break
Raw(t) ==
    CASE t.kind = "UnquotedValue" -> Doubled(t.value)
      [] t.kind = "QuotedValue" -> Enclosed(t.value)
      [] t.kind = "Spacing" -> t.value
      [] t.kind = "Comment" -> <<HASH>> \o t.value
      [] t.kind = "LineBreak" -> LineBreakBytes(t.line_break)
      [] OTHER -> <<>>

\* index in the input of the first element of the k-th item
RECURSIVE Start(_, _)
Start(items, k) ==
    IF k = 1 THEN 1 ELSE Start(items, k - 1) + Len(Raw(items[k - 1]))

\* C12: every token is made of the elements that follow those of the tokens
\* before it, and carries the line and column of the first of them, the
\* line being one more than the number of LF before that element (those
\* inside quoted values included) and the column counting from the last LF.
C12_TokenPositions ==
    \A k \in 1..Len(tokens) :
        IsToken(tokens[k])
        => LET s == Start(tokens, k)
               e == s + Len(Raw(tokens[k])) - 1
           IN  /\ e <= Len(source.bytes)
               /\ SubSeq(source.bytes, s, e) = Raw(tokens[k])
               /\ tokens[k].position = ElementPosition(source.bytes, s)

C12_Witness ==
    /\ source.bytes = <<QUOTE, LF, QUOTE, LF>>
    /\ Len(tokens) >= 2
    /\ tokens[1].kind = "QuotedValue"
    /\ tokens[1].position = Position(1, 1)
    /\ tokens[2].kind = "LineBreak"
    /\ tokens[2].position = Position(2, 2)

----------------------------------------------------------------------------
(* SpecRead: a Reader over any input of at most MaxInput elements,         *)
(* possibly ending in an IO error                                          *)

InitRead == InitWriter /\ InitReader(Sources) /\ pc = "read"

NextRead == ReaderNext

SpecRead == InitRead /\ [][NextRead]_vars

(* Vocabulary of the properties of the rows read *)

\* the items a Tokenizer over src yields before None
RECURSIVE ItemsFrom(_, _)
ItemsFrom(src, tk) ==
    LET r == Tokenizer_next(tk, src) IN
    IF r.item = NoItem THEN <<>> ELSE <<r.item>> \o ItemsFrom(src, r.tokenizer)

AllItems(src) == ItemsFrom(src, Tokenizer_new)

\* the tokens among them: those before the error, when there is one
TokensOf(items) == SelectSeq(items, IsToken)

HasError(items) == \E i \in 1..Len(items) : ~IsToken(items[i])

FirstBreak(toks) ==
    LET breaks == {i \in 1..Len(toks) : toks[i].kind = "LineBreak"} IN
    IF breaks = {} THEN 0 ELSE CHOOSE i \in breaks : \A j \in breaks : i <= j

\* the lines a line break ends, each as the tokens before its line break
RECURSIVE Lines(_)
Lines(toks) ==
    LET b == FirstBreak(toks) IN
    IF b = 0 THEN <<>>
    ELSE <<SubSeq(toks, 1, b - 1)>> \o Lines(SubSeq(toks, b + 1, Len(toks)))

\* the tokens after the last line break
RECURSIVE LastLine(_)
LastLine(toks) ==
    LET b == FirstBreak(toks) IN
    IF b = 0 THEN toks ELSE LastLine(SubSeq(toks, b + 1, Len(toks)))

IsCommentLine(line) == \E i \in 1..Len(line) : line[i].kind = "Comment"

HasValue(line) == \E i \in 1..Len(line) : IsValue(line[i])

\* the values of a line, in order
ValuesOf(line) ==
    LET values == SelectSeq(line, IsValue) IN
    [i \in 1..Len(values) |-> values[i].value]

\* the rows of the lines that a line break ends and that are not comments
RowsOfLines(lines) ==
    LET kept == SelectSeq(lines, LAMBDA line : ~IsCommentLine(line)) IN
    [i \in 1..Len(kept) |-> RowItem(ValuesOf(kept[i]))]

\* an item without its position
Outcome(item) == [kind |-> item.kind, row |-> item.row]

Outcomes(items) == [i \in 1..Len(items) |-> Outcome(items[i])]

\* the items a Reader over src yields before None
RECURSIVE RowsFrom(_, _, _)
RowsFrom(src, tk, state) ==
    LET r == Reader_next(src, tk, state) IN
    IF r.item = RNoItem THEN <<>>
    ELSE <<r.item>> \o RowsFrom(src, r.tokenizer, r.state)

ReadAll(src) == RowsFrom(src, Tokenizer_new, RBegin)

\* the indices of the elements of the comment lines of an input: those of
\* each Comment token and of the LF or CR-LF that follows it
CommentElements(bytes, items) ==
    UNION {LET s == Start(items, k)
               e == s + Len(Raw(items[k])) - 1
               n == Len(bytes)
           IN  IF e + 1 <= n /\ bytes[e + 1] = LF THEN s..(e + 1)
               ELSE IF e + 2 <= n /\ bytes[e + 1] = CR /\ bytes[e + 2] = LF
               THEN s..(e + 2)
               ELSE s..e :
           k \in {j \in 1..Len(items) : items[j].kind = "Comment"}}

RECURSIVE Without(_, _, _)
Without(bytes, i, removed) ==
    IF i > Len(bytes) THEN <<>>
    ELSE (IF i \in removed THEN <<>> ELSE <<bytes[i]>>) \o Without(bytes, i + 1, removed)

WithoutCommentLines(src) ==
    [src EXCEPT !.bytes = Without(@, 1, CommentElements(@, AllItems(src)))]

\* C13: a comment line (a line that begins with HASH, up to and including
\* its LF or CR-LF, or up to the end of input) contributes no row: over an
\* input read to its end the Reader yields the rows, and the quote error if
\* any, that it yields over the input with its comment lines taken out.
C13_CommentLinesGiveNoRow ==
    ~source.io_error
    => LET expected == Outcomes(ReadAll(WithoutCommentLines(source))) IN
       /\ IsPrefix(Outcomes(Yielded(rows)), expected)
       /\ Ended(rows) => Outcomes(Yielded(rows)) = expected

C13_Witness ==
    /\ source = [bytes |-> <<HASH, X, LF, X>>, io_error |-> FALSE]
    /\ Len(rows) = 2
    /\ rows[1] = RowItem(<< <<X>> >>)
    /\ rows[2] = RNoItem

\* the tokens the tokenizer yields over the input, and the lines among them
InputTokens == TokensOf(AllItems(source))

RowItems(items) == SelectSeq(items, LAMBDA it : it.kind = "Row")

\* C14: each line that a line break ends and that is not a comment yields
\* one row, in the order of the lines, and the row of a line whose line
\* break is met at the start of the line is the empty row: k blank lines
\* in a row yield k empty rows in their place.
C14_BlankLinesAreRows ==
    LET lines == SelectSeq(Lines(InputTokens), LAMBDA line : ~IsCommentLine(line))
        got == RowItems(rows)
    IN  /\ Len(got) <= Len(lines) + 1
        /\ Ended(rows) => Len(got) >= Len(lines)
        /\ \A k \in 1..Len(lines) :
               k <= Len(got)
               => /\ rows[k] = got[k]
                  /\ got[k].row = ValuesOf(lines[k])
                  /\ lines[k] = <<>> => got[k].row = <<>>

C14_Witness ==
    /\ source = [bytes |-> <<LF, LF, X, LF>>, io_error |-> FALSE]
    /\ Len(rows) = 4
    /\ rows[1] = RowItem(<<>>)
    /\ rows[2] = RowItem(<<>>)
    /\ rows[3] = RowItem(<< <<X>> >>)
    /\ rows[4] = RNoItem

\* C15: over an input read to its end without error, a last line that
\* holds a value and has no line break is yielded once, as the last row;
\* when the input ends right after a line break (or is empty) or in a
\* comment line, no row follows those of the lines before; and once None
\* has been returned every later call returns None.
C15_EndOfInput ==
    /\ \A i \in 1..Len(rows) :
           rows[i].kind = "None"
           => \A j \in (i + 1)..Len(rows) : rows[j].kind = "None"
    /\ (Ended(rows) /\ ~HasError(AllItems(source)))
       => LET before == RowsOfLines(Lines(InputTokens))
              last_line == LastLine(InputTokens)
          IN  /\ HasValue(last_line)
                 => Yielded(rows) = Append(before, RowItem(ValuesOf(last_line)))
              /\ (last_line = <<>> \/ IsCommentLine(last_line))
                 => Yielded(rows) = before

C15_Witness ==
    /\ source = [bytes |-> <<X, LF, X, X>>, io_error |-> FALSE]
    /\ Len(rows) = 4
    /\ rows[1] = RowItem(<< <<X>> >>)
    /\ rows[2] = RowItem(<< <<X, X>> >>)
    /\ rows[3] = RNoItem
    /\ rows[4] = RNoItem

\* the rows a Reader yields over a sequence of tokens, by Reader::process
\* and Reader::finish
RECURSIVE ReadTokens(_, _)
ReadTokens(toks, state) ==
    IF toks = <<>>
    THEN LET f == Reader_finish(state) IN IF f = RNoItem THEN <<>> ELSE <<f>>
    ELSE LET p == Reader_process(Head(toks), state) IN
         CASE p.result = "ReturnRow" -> <<RowItem(p.row)>> \o ReadTokens(Tail(toks), RBegin)
           [] p.result = "NextState" -> ReadTokens(Tail(toks), p.state)
           [] OTHER -> <<RPanicItem>>

WithoutSpacing(toks) == SelectSeq(toks, LAMBDA t : t.kind # "Spacing")

\* C16 as stated: the rows read from an input are the rows read from its
\* tokens with the Spacing tokens taken out, so that spacing alone on a
\* last line without line break yields no row.
C16_Original ==
    (Ended(rows) /\ ~HasError(AllItems(source)))
    => Yielded(rows) = ReadTokens(WithoutSpacing(InputTokens), RBegin)

\* C17: when the tokenizer yields an error, the Reader yields the rows of
\* the lines whose line break the tokenizer had yielded (comment lines
\* aside), in order, then that error with its position, once, and None on
\* every later call; the values of the line the error interrupts are never
\* yielded.
C17_ErrorPropagation ==
    LET items == AllItems(source) IN
    /\ \A i \in 1..Len(rows) :
           IsError(rows[i]) => \A j \in (i + 1)..Len(rows) : rows[j].kind = "None"
    /\ HasError(items)
       => LET expected == Append(RowsOfLines(Lines(TokensOf(items))),
                                 RErrItem(items[Len(items)]))
          IN  /\ IsError(items[Len(items)])
              /\ IsPrefix(Yielded(rows), expected)
              /\ Ended(rows) => Yielded(rows) = expected

C17_Witness ==
    /\ source = [bytes |-> <<X, LF, X, QUOTE>>, io_error |-> FALSE]
    /\ Len(rows) = 4
    /\ rows[1] = RowItem(<< <<X>> >>)
    /\ rows[2].kind = "UnpairedQuote"
    /\ rows[2].position = Position(2, 2)
    /\ rows[3] = RNoItem
    /\ rows[4] = RNoItem

----------------------------------------------------------------------------
(* Further properties of the token sequence *)

\* C18: when the element that follows a Spacing token is a HASH, the item
\* after the Spacing token is never a Comment: it is an UnquotedValue that
\* begins with the HASH, or the error that ends that unquoted value.
C18_HashAfterSpacing ==
    \A k \in 1..(Len(tokens) - 1) :
        LET h == Start(tokens, k + 1)
            t == tokens[k + 1]
        IN  (/\ tokens[k].kind = "Spacing"
             /\ h <= Len(source.bytes)
             /\ source.bytes[h] = HASH)
            => /\ t.kind # "Comment"
               /\ IsToken(t) => (t.kind = "UnquotedValue" /\ t.value[1] = HASH)
               /\ ~IsToken(t)
                  => /\ t.kind \in {"UnpairedQuote", "IoError"}
                     /\ t.from.tag \in {"UnquotedValue", "QuoteInUnquotedValue"}

C18_Witness ==
    /\ source.bytes = <<SPACE, HASH, X>>
    /\ ~source.io_error
    /\ Len(tokens) >= 2
    /\ tokens[1].kind = "Spacing"
    /\ tokens[2].kind = "UnquotedValue"
    /\ tokens[2].value = <<HASH, X>>

\* the number of quotes in a row from index s of the input
QuoteRun(bytes, s) ==
    Cardinality({j \in s..Len(bytes) : \A i \in s..j : bytes[i] = QUOTE})

\* at index i the input has what ends a value: a spacing element, an LF, a
\* CR followed by LF, or its end
EndsValue(src, i) ==
    LET n == Len(src.bytes) IN
    IF i > n THEN ~src.io_error
    ELSE \/ src.bytes[i] \in {SPACE, TAB, LF}
         \/ src.bytes[i] = CR /\ i + 1 <= n /\ src.bytes[i + 1] = LF

\* C19: a run of n quotes, n even and at least 2, that begins a value and
\* is followed by a spacing element, LF, CR-then-LF or the end of input is
\* yielded as one QuotedValue token holding (n - 2) / 2 quotes.
C19_OnlyQuotes ==
    \A k \in 1..Len(tokens) :
        LET s == Start(tokens, k)
            n == QuoteRun(source.bytes, s)
        IN  (n >= 2 /\ n % 2 = 0 /\ EndsValue(source, s + n))
            => /\ tokens[k].kind = "QuotedValue"
               /\ tokens[k].value = [i \in 1..((n - 2) \div 2) |-> QUOTE]

C19_Witness ==
    /\ source.bytes = <<QUOTE, QUOTE, QUOTE, QUOTE>>
    /\ ~source.io_error
    /\ Len(tokens) >= 1
    /\ tokens[1].kind = "QuotedValue"
    /\ tokens[1].value = <<QUOTE>>

\* C20: a LineBreak(CrLf) token is a CR and the LF right after it, a
\* LineBreak(Lf) token an LF; a CR that no LF follows and that begins an
\* item begins an unquoted value (yielded, or ended by an error), and an unquoted value never ends at a CR
\* that no LF follows: such a CR is an element of the value.
C20_CrLookahead ==
    \A k \in 1..Len(tokens) :
        LET t == tokens[k]
            bytes == source.bytes
            n == Len(bytes)
            s == Start(tokens, k)
            e == s + Len(Raw(t)) - 1
            LoneCr(i) == /\ i <= n
                         /\ bytes[i] = CR
                         /\ ~(i + 1 <= n /\ bytes[i + 1] = LF)
        IN  /\ t.kind = "LineBreak"
               => IF t.line_break = "CrLf"
                  THEN s + 1 <= n /\ bytes[s] = CR /\ bytes[s + 1] = LF
                  ELSE s <= n /\ bytes[s] = LF
            /\ (LoneCr(s) /\ t.kind # "None")
               => \/ t.kind = "UnquotedValue" /\ t.value[1] = CR
                  \/ /\ t.kind \in {"UnpairedQuote", "IoError"}
                     /\ t.from.tag \in {"UnquotedValue", "QuoteInUnquotedValue"}
            /\ t.kind = "UnquotedValue"
               => /\ SubSeq(bytes, s, e) = Doubled(t.value)
                  /\ ~LoneCr(e + 1)

C20_Witness ==
    /\ source.bytes = <<X, CR, CR, LF>>
    /\ ~source.io_error
    /\ Len(tokens) >= 2
    /\ tokens[1].kind = "UnquotedValue"
    /\ tokens[1].value = <<X, CR>>
    /\ tokens[2].kind = "LineBreak"
    /\ tokens[2].line_break = "CrLf"

----------------------------------------------------------------------------
(* Comments and line breaks *)

\* index of the element that ends the comment whose HASH is at index s: the
\* first LF or CR before LF after it, or one past the end of the input
CommentEnd(bytes, s) ==
    LET n == Len(bytes)
        ends == {i \in (s + 1)..n :
                    \/ bytes[i] = LF
                    \/ bytes[i] = CR /\ i + 1 <= n /\ bytes[i + 1] = LF}
    IN  IF ends = {} THEN n + 1 ELSE CHOOSE i \in ends : \A j \in ends : i <= j

CrOnlyBeforeLf(bytes) ==
    \A i \in 1..Len(bytes) :
        bytes[i] = CR => (i + 1 <= Len(bytes) /\ bytes[i + 1] = LF)

\* no quoted value of the input holds a line break
NoLineBreakInQuotedValue(src) ==
    LET items == AllItems(src) IN
    \A k \in 1..Len(items) :
        items[k].kind = "QuotedValue"
        => \A i \in 1..Len(items[k].value) : items[k].value[i] # LF

\* the input with every CR-LF replaced by LF
WithLfOnly(src) ==
    LET bytes == src.bytes
        n == Len(bytes)
    IN  [src EXCEPT !.bytes =
            Without(bytes, 1, {i \in 1..n : /\ bytes[i] = CR
                                             /\ i + 1 <= n
                                             /\ bytes[i + 1] = LF})]

----------------------------------------------------------------------------
(* Properties of the Writer and its RowWriter over a sink that may fail *)

OptionSetters == {"set_default_spacing", "set_default_line_break", "set_always_quoted"}

\* the calls that go through the Writer's FluentWriter
WriterMethods ==
    {"write_row", "write_rows", "write_comment_line", "RowWriter::write_value",
     "RowWriter::write_spacing", "RowWriter::finish", "finish", "options",
     "set_options"} \cup OptionSetters

\* C23 as stated: a Writer or RowWriter method that returns an error leaves
\* the Writer invalid, and every call made on an invalid Writer or on its
\* RowWriter panics and writes no byte.
C23_Original ==
    /\ (/\ last.op \in WriterMethods \ OptionSetters
         /\ last.err # "None"
         /\ ~last.panicked)
        => ~fluent_some
    /\ (last.op \in WriterMethods /\ ~last.some)
        => /\ last.panicked
           /\ Bytes = last.pre.inner.bytes

\* C24 as stated: when the sink fails during write_row, write_rows,
\* write_comment_line or RowWriter::finish on a valid Writer, the call
\* returns the IO error and does not panic.
C24_Original ==
    (/\ last.op \in {"write_row", "write_rows", "write_comment_line", "RowWriter::finish"}
     /\ last.some
     /\ last.err = "IoError")
    => ~last.panicked

\* C25: a RowWriter ended without error writes exactly one default
\* line break at the end of its row: RowWriter::finish writes the default
\* line break and nothing more (the RowWriter is forgotten, so no drop
\* writes a second one), a RowWriter dropped without finish writes the
\* default line break, and what write_row and write_comment_line write
\* ends with the default line break, the only LF that write_row writes.
C25_OneLineBreak ==
    LET line_break == LineBreakBytes(last.pre.options.default_line_break)
        done == last.err = "None" /\ ~last.panicked
    IN  /\ (last.op \in {"RowWriter::finish", "RowWriter::drop"} /\ done)
           => Added = line_break
        /\ (last.op \in {"write_row", "write_comment_line"} /\ done)
           => /\ Len(Added) >= Len(line_break)
              /\ SubSeq(Added, Len(Added) - Len(line_break) + 1, Len(Added)) = line_break
              /\ last.op = "write_row" => Count(Added, {LF}) = 1

C25_Witness ==
    /\ last.op = "RowWriter::finish"
    /\ last.err = "None"
    /\ ~last.panicked
    /\ last.prev.op = "RowWriter::write_value"
    /\ last.pre.options.default_line_break = "CrLf"
    /\ Bytes = <<X, CR, LF>>

\* C26 as stated: the drop of a RowWriter that was not finished never
\* panics, whether the sink refuses the line break or the Writer is
\* already invalid.
C26_Original ==
    last.op = "RowWriter::drop" => ~last.panicked

\* C27 as stated: a Writer that goes out of scope without finish, the one
\* the helper write makes included, flushes the sink.
C27_Original ==
    (last.op \in {"drop", "write"} /\ ~last.panicked)
    => fluent.inner.flush_calls = last.pre.inner.flush_calls + 1

\* C28: the options start as (one SPACE, Lf, not always quoted); whatever
\* the calls made, default_spacing is non-empty and holds only spacing
\* elements; a set_default_spacing with an empty or non-spacing string made
\* through options_mut of a valid Writer returns InvalidSpacing, changes
\* none of the three options, writes nothing and leaves the Writer valid.
C28_OptionsInvariant ==
    /\ nops = 0
       => fluent.options = [default_spacing |-> <<SPACE>>,
                            default_line_break |-> "Lf",
                            always_quoted |-> FALSE]
    /\ Len(fluent.options.default_spacing) > 0
    /\ \A i \in 1..Len(fluent.options.default_spacing) :
           fluent.options.default_spacing[i] \in {SPACE, TAB}
    /\ (/\ last.op = "set_default_spacing"
        /\ last.some
        /\ \/ last.arg = <<>>
           \/ \E i \in 1..Len(last.arg) : last.arg[i] \notin {SPACE, TAB})
       => /\ last.err = "InvalidSpacing"
          /\ ~last.panicked
          /\ fluent.options = last.pre.options
          /\ Bytes = last.pre.inner.bytes
          /\ fluent_some

C28_Witness ==
    /\ last.op = "set_default_spacing"
    /\ last.arg = <<X>>
    /\ last.err = "InvalidSpacing"
    /\ last.prev.op = "set_default_spacing"
    /\ last.prev.arg = <<TAB>>
    /\ fluent.options.default_spacing = <<TAB>>
    /\ fluent_some

----------------------------------------------------------------------------
(* Transitions of the tokenizer from the states Spacing and QuotesPrefix *)

\* the last item yielded is a Spacing token that a HASH ended
SpacingEndedByHash ==
    /\ Len(tokens) >= 1
    /\ tokens[Len(tokens)].kind = "Spacing"
    /\ tokenizer.next_index - 1 \in 1..Len(source.bytes)
    /\ source.bytes[tokenizer.next_index - 1] = HASH

\* C29 as stated: on a HASH in state Spacing the tokenizer yields the
\* Spacing token and goes to state Comment with an empty comment.
C29_Original ==
    SpacingEndedByHash => tokenizer.state = Comment(<<>>)

\* C29: on a HASH in state Spacing the tokenizer yields the Spacing token
\* and goes to state UnquotedValue holding the HASH, so that the rest of the
\* line is tokenized as an unquoted value; a Comment token is only ever the
\* first item or the item after a LineBreak token.
C29_SpacingOnHash ==
    /\ SpacingEndedByHash => tokenizer.state = UnquotedValue(<<HASH>>)
    /\ \A k \in 2..Len(tokens) :
           tokens[k].kind = "Comment" => tokens[k - 1].kind = "LineBreak"

C29_Witness ==
    /\ source.bytes = <<SPACE, SPACE, HASH, X>>
    /\ Len(tokens) = 1
    /\ tokens[1].kind = "Spacing"
    /\ Len(tokens[1].value) = 2
    /\ tokenizer.state = UnquotedValue(<<HASH>>)

\* the k-th item is a token yielded in state QuotesPrefix with an even
\* count, on an element that follows the run of quotes
EvenQuotesPrefixEnded(k) ==
    /\ IsToken(tokens[k])
    /\ tokens[k].from.tag = "QuotesPrefix"
    /\ tokens[k].from.count % 2 = 0
    /\ Start(tokens, k) + tokens[k].from.count <= Len(source.bytes)

\* C30 as stated: in state QuotesPrefix(count) with count even, a spacing
\* element, an LF or a CR before LF makes the tokenizer yield an
\* UnquotedValue token of (count - 2) / 2 quotes.
C30_Original ==
    \A k \in 1..Len(tokens) :
        EvenQuotesPrefixEnded(k)
        => /\ tokens[k].kind = "UnquotedValue"
           /\ tokens[k].value = [i \in 1..((tokens[k].from.count - 2) \div 2) |-> QUOTE]

\* C30: in state QuotesPrefix(count) with count even, a spacing element, an
\* LF or a CR before LF makes the tokenizer yield a QuotedValue token of
\* (count - 2) / 2 quotes, and no other element makes it yield a token.
C30_EvenQuotesPrefix ==
    \A k \in 1..Len(tokens) :
        EvenQuotesPrefixEnded(k)
        => LET count == tokens[k].from.count
               e == Start(tokens, k) + count
           IN  /\ count >= 2
               /\ tokens[k].kind = "QuotedValue"
               /\ tokens[k].value = [i \in 1..((count - 2) \div 2) |-> QUOTE]
               /\ EndsValue(source, e)

C30_Witness ==
    /\ source.bytes = <<QUOTE, QUOTE, QUOTE, QUOTE, LF>>
    /\ Len(tokens) >= 1
    /\ tokens[1].kind = "QuotedValue"
    /\ tokens[1].value = <<QUOTE>>
    /\ tokens[1].from = QuotesPrefix(4)

----------------------------------------------------------------------------
(* What the tokenizer yields when the input ends *)

\* the last item recorded is what finish made of the state the input ended
\* in, that state having one of the tags: the whole input was taken without
\* an IO error, and the item is not the UnpairedQuote that process reports
\* on an element other than a quote
InputEndedIn(tags) ==
    /\ Len(tokens) >= 1
    /\ ~source.io_error
    /\ tokenizer.next_index = Len(source.bytes) + 1
    /\ tokenizer.state = NoState
    /\ tokens[Len(tokens)].from.tag \in tags
    /\ ~(/\ tokens[Len(tokens)].kind = "UnpairedQuote"
         /\ source.bytes[Len(source.bytes)] # QUOTE)

\* the item at the end of the input is a token of this kind holding the
\* buffer of the state the input ended in
FinalToken(kind) ==
    /\ tokens[Len(tokens)].kind = kind
    /\ tokens[Len(tokens)].value = tokens[Len(tokens)].from.value

\* the cases of finish on which the claim and the code agree
FinalTokenOfBuffer ==
    /\ InputEndedIn({"UnquotedValue"}) => FinalToken("UnquotedValue")
    /\ InputEndedIn({"QuoteInQuotedValue"}) => FinalToken("QuotedValue")
    /\ InputEndedIn({"Spacing"}) => FinalToken("Spacing")
    /\ InputEndedIn({"Comment"}) => FinalToken("Comment")
    /\ InputEndedIn({"Begin"}) => tokens[Len(tokens)].kind = "None"

\* C31 as stated: when the input ends in state UnquotedValue, QuotedValue
\* or QuoteInQuotedValue the buffer is yielded as an UnquotedValue,
\* QuotedValue, QuotedValue token and no error is produced; in state
\* Spacing or Comment it is yielded as a Spacing or Comment token; in state
\* Begin nothing is yielded.
C31_Original ==
    /\ FinalTokenOfBuffer
    /\ InputEndedIn({"QuotedValue"}) => FinalToken("QuotedValue")

\* C31: when the input ends in state UnquotedValue or QuoteInQuotedValue
\* the buffer is yielded as an UnquotedValue or QuotedValue token and no
\* error is produced; in state Spacing or Comment it is yielded as a
\* Spacing or Comment token; in state Begin nothing is yielded; in state
\* QuotedValue, the closing quote missing, no token is yielded but the
\* error UnclosedQuotedValue.
C31_EndOfInput ==
    /\ FinalTokenOfBuffer
    /\ InputEndedIn({"QuotedValue"})
       => tokens[Len(tokens)].kind = "UnclosedQuotedValue"

C31_Witness ==
    /\ source.bytes = <<SPACE, QUOTE, X, SPACE>>
    /\ InputEndedIn({"QuotedValue"})
    /\ Len(tokens) = 2
    /\ tokens[1].kind = "Spacing"
    /\ tokens[2].kind = "UnclosedQuotedValue"
    /\ tokens[2].from = QuotedValue(<<X, SPACE>>)

----------------------------------------------------------------------------
(* Values that begin with a run of quotes *)

\* the k-th item begins at a run of n quotes that an element follows
LeadingQuotes(k, n) ==
    /\ tokens[k].kind # "None"
    /\ n >= 1
    /\ n = QuoteRun(source.bytes, Start(tokens, k))
    /\ Start(tokens, k) + n <= Len(source.bytes)

\* the k-th item was yielded in one of the states, whose buffer begins with
\* m quotes and the element x; when it is a token it has the kind and its
\* value begins the same way
BeginsWith(k, tags, kind, m, x) ==
    LET content == [i \in 1..(m + 1) |-> IF i <= m THEN QUOTE ELSE x] IN
    /\ tokens[k].from.tag \in tags
    /\ IsPrefix(content, tokens[k].from.value)
    /\ IsToken(tokens[k])
       => /\ tokens[k].kind = kind
          /\ IsPrefix(content, tokens[k].value)

\* C32: a value that begins with a run of n quotes followed by an element
\* x that is not a quote is, for n odd, a quoted value whose content begins
\* with (n - 1) / 2 quotes and x, whatever x is; for n even and x neither a
\* spacing element, nor LF, nor a CR before LF, it is an unquoted value
\* whose content begins with n / 2 quotes and x.
C32_QuotesParity ==
    \A k \in 1..Len(tokens) : \A n \in 1..Len(source.bytes) :
        LeadingQuotes(k, n)
        => LET e == Start(tokens, k) + n
               x == source.bytes[e]
           IN  /\ n % 2 = 1
                  => BeginsWith(k, {"QuotedValue", "QuoteInQuotedValue"},
                                "QuotedValue", (n - 1) \div 2, x)
               /\ (n % 2 = 0 /\ ~EndsValue(source, e))
                  => BeginsWith(k, {"UnquotedValue", "QuoteInUnquotedValue"},
                                "UnquotedValue", n \div 2, x)

C32_Witness ==
    /\ source.bytes = <<QUOTE, QUOTE, QUOTE, LF>>
    /\ ~source.io_error
    /\ Len(tokens) >= 1
    /\ LeadingQuotes(1, 3)
    /\ tokens[1].kind = "UnclosedQuotedValue"
    /\ tokens[1].from = QuotedValue(<<QUOTE, LF>>)

----------------------------------------------------------------------------
(* The tokens of what a FluentWriter has written *)

\* the items a Tokenizer yields over bytes that are read to their end
ItemsOf(bytes) == AllItems([bytes |-> bytes, io_error |-> FALSE])

\* the value tokens among items, each as its kind and its value, in order
ValueTokensIn(items) ==
    LET values == SelectSeq(items, IsValue) IN
    [i \in 1..Len(values) |-> [kind |-> values[i].kind, value |-> values[i].value]]

\* the comments of the Comment tokens among items, in order
CommentsIn(items) ==
    LET comments == SelectSeq(items, LAMBDA it : it.kind = "Comment") IN
    [i \in 1..Len(comments) |-> comments[i].value]

\* the value token that answers the last call, when it wrote a value:
\* quoted when the value was written between quotes
ValueTokenWritten ==
    IF ~ValueWritten THEN <<>>
    ELSE <<[kind |-> IF Body = Enclosed(last.arg) THEN "QuotedValue"
                     ELSE "UnquotedValue",
            value |-> last.arg]>>

\* C33: after every sequence of calls on a FluentWriter, the tokenizer
\* yields no error over the bytes written, and each call adds to the tokens
\* of the bytes written before it exactly what it wrote: a value call one
\* value token holding the value, a QuotedValue when the value was written
\* between quotes and an UnquotedValue otherwise, a comment call one
\* Comment token holding the comment, any other call neither; so the value
\* tokens are the values written and the Comment tokens the comments
\* written, in order.
C33_WriterTokenizerAgree ==
    LET before == ItemsOf(last.pre.inner.bytes)
        after == ItemsOf(Bytes)
    IN  /\ last.err = "None"
        /\ ~HasError(after)
        /\ ValueWritten => Body \in {Enclosed(last.arg), Doubled(last.arg)}
        /\ ValueTokensIn(after) = ValueTokensIn(before) \o ValueTokenWritten
        /\ CommentsIn(after) =
               CommentsIn(before)
               \o (IF last.op = "write_comment" THEN <<last.arg>> ELSE <<>>)

C33_Witness ==
    /\ nops = 3
    /\ last.op = "write_value"
    /\ last.arg = <<HASH>>
    /\ last.pre.state = "Comment"
    /\ last.prev.op = "write_comment"
    /\ last.prev.arg = <<QUOTE>>
    /\ ValueTokensIn(ItemsOf(Bytes))
           = <<[kind |-> "UnquotedValue", value |-> <<QUOTE, X>>],
               [kind |-> "QuotedValue", value |-> <<HASH>>]>>
    /\ CommentsIn(ItemsOf(Bytes)) = <<<<QUOTE>>>>

----------------------------------------------------------------------------
(* Rows over the full alphabet, written and read back *)

\* the rows of a table as the items a Reader yields for them
RowItemsOf(rs) == [i \in 1..Len(rs) |-> RowItem(rs[i])]

\* C34 as stated: rows whose values are strings over regular, spacing,
\* quote, HASH, LF and CR elements, written by write_rows with the default
\* options, are read back exactly: as many rows, with the same values in
\* the same order.
C34_Original ==
    (last.op = "write_rows" /\ pc = "read" /\ Ended(rows))
    => /\ last.err = "None"
       /\ Yielded(rows) = RowItemsOf(last.arg)

----------------------------------------------------------------------------
(* Rows and comment lines written, and the rows read back *)

\* the items a Reader yields over bytes that are read to their end
RowsOf(bytes) == ReadAll([bytes |-> bytes, io_error |-> FALSE])

\* C35 as stated: after every sequence of write_row and write_comment_line
\* calls, the comments over regular, spacing, quote, HASH and LF elements,
\* the rows read from the output are the rows passed to write_row, in
\* order: each write_row adds its row to the rows read from what was
\* written before it, and a write_comment_line adds no row and no value.
C35_Original ==
    (last.op \in {"write_row", "write_comment_line"} /\ last.err = "None")
    => RowsOf(Bytes) =
           RowsOf(last.pre.inner.bytes)
           \o (IF last.op = "write_row" THEN <<RowItem(last.arg)>> ELSE <<>>)

----------------------------------------------------------------------------
(* Shape and content of the tokens yielded *)

C37_TokenContent ==
    \A k \in 1..Len(tokens) :
        /\ tokens[k].kind = "UnquotedValue"
           => /\ Len(tokens[k].value) >= 1
              /\ \A i \in 1..Len(tokens[k].value) :
                     /\ ~is_spacing_element(tokens[k].value[i])
                     /\ tokens[k].value[i] # LF
              /\ \E i \in 1..Len(tokens[k].value) : tokens[k].value[i] # QUOTE
        /\ tokens[k].kind = "Spacing"
           => /\ Len(tokens[k].value) >= 1
              /\ \A i \in 1..Len(tokens[k].value) :
                     is_spacing_element(tokens[k].value[i])

C37_Witness ==
    /\ source.bytes = <<QUOTE, QUOTE, CR, SPACE>>
    /\ Len(tokens) = 2
    /\ tokens[1].kind = "UnquotedValue"
    /\ tokens[1].value = <<QUOTE, CR>>
    /\ tokens[2].kind = "Spacing"
    /\ tokens[2].value = <<SPACE>>

----------------------------------------------------------------------------
(* Where a line of the output begins *)

\* index in the output of the HASH the last call, a write_comment, wrote:
\* the comment is the last thing the call writes, the HASH right before it
HashWritten == Len(Bytes) - Len(last.arg)

\* C38: whenever a FluentWriter is in state LineBegin, what it has written
\* is empty or ends with LF; and the HASH written by a write_comment call
\* is the first element of the output or comes right after an LF.
C38_LineStart ==
    /\ (fluent_some /\ fluent.state = "LineBegin")
       => (Bytes = <<>> \/ Bytes[Len(Bytes)] = LF)
    /\ (last.op = "write_comment" /\ last.err = "None")
       => /\ HashWritten > Len(last.pre.inner.bytes)
          /\ Bytes[HashWritten] = HASH
          /\ HashWritten = 1 \/ Bytes[HashWritten - 1] = LF

C38_Witness ==
    /\ nops = 3
    /\ last.prev.op = "write_spacing"
    /\ last.prev.err = "None"
    /\ last.op = "write_comment"
    /\ last.arg = <<X>>
    /\ last.pre.options.default_line_break = "CrLf"
    /\ Bytes = <<SPACE, CR, LF, HASH, X>>

----------------------------------------------------------------------------
(* Absence of panics *)

\* C39: the tokenizer never panics: it is in state CrInLineBreak only with
\* an LF as the next element of the input, which it then yields with the CR
\* as a CrLf line break, so that neither the assertion on that element
\* fails nor the input ends in that state; the subtractions from the count
\* of quotes and from the column never go below zero; and every
\* UnpairedQuote or UnclosedQuotedValue error carries a line and a column
\* of at least 1.
C39_NoPanic ==
    /\ tokenizer.state = CrInLineBreak
       => /\ tokenizer.next_index <= Len(source.bytes)
          /\ source.bytes[tokenizer.next_index] = LF
    /\ \A k \in 1..Len(tokens) :
           /\ tokens[k].kind # "Panic"
           /\ tokens[k].from = CrInLineBreak
              => tokens[k].kind = "LineBreak" /\ tokens[k].line_break = "CrLf"
           /\ tokens[k].from.tag = "QuotesPrefix" => tokens[k].from.count >= 1
           /\ tokens[k].kind \in {"UnpairedQuote", "UnclosedQuotedValue"}
              => /\ tokens[k].position.line_number >= 1
                 /\ tokens[k].position.column_number >= 1

C39_Witness ==
    /\ source.bytes = <<X, CR, LF, QUOTE>>
    /\ ~source.io_error
    /\ Len(tokens) = 3
    /\ tokens[1].kind = "UnquotedValue"
    /\ tokens[2].kind = "LineBreak"
    /\ tokens[2].from = CrInLineBreak
    /\ tokens[3].kind = "UnclosedQuotedValue"
    /\ tokens[3].position = Position(2, 2)

\* the state in which the Reader takes the k-th token of toks: the state
\* Reader::process left it in on the token before, Begin after a row
RECURSIVE ReaderStateAt(_, _)
ReaderStateAt(toks, k) ==
    IF k = 1 THEN RBegin
    ELSE LET p == Reader_process(toks[k - 1], ReaderStateAt(toks, k - 1)) IN
         CASE p.result = "ReturnRow" -> RBegin
           [] p.result = "NextState" -> p.state
           [] OTHER -> RNone

\* C40: the Reader is in state Begin whenever it takes a Comment token, so
\* that it never takes one in state Row, and no call of Reader::next
\* panics.
C40_NoCommentInRow ==
    /\ \A k \in 1..Len(InputTokens) :
           InputTokens[k].kind = "Comment"
           => ReaderStateAt(InputTokens, k) = RBegin
    /\ \A k \in 1..Len(rows) : rows[k].kind # "Panic"

C40_Witness ==
    /\ source.bytes = <<X, LF, HASH, X>>
    /\ ~source.io_error
    /\ InputTokens[3].kind = "Comment"
    /\ ReaderStateAt(InputTokens, 3) = RBegin
    /\ rows = <<RowItem(<<<<X>>>>), RNoItem>>

====
